---- MODULE Spec2Model ----
(***************************************************************************)
(* Model of the helpers of aws-async-assertions: the polling helpers       *)
(* getItem (src/dynamo-db/get-item.ts) and query (src/dynamo-db/query.ts), *)
(* and the one-shot helpers putItem, httpCall, generateAccessToken,        *)
(* generateUserAccessToken and generateRandomId. Each invocation is a      *)
(* sequential function; the store client (docClient.send / dynamoDb.send), *)
(* the remote endpoint behind fetch, randomUUID and the timer behind       *)
(* delay() are the environment.                                            *)
(***************************************************************************)
EXTENDS Integers, Sequences, FiniteSets, TLC

(***************************************************************************)
(* Bounds of the model.                                                    *)
(***************************************************************************)
\* largest explicit maxIterations a caller passes
MaxIterations == 3

(***************************************************************************)
(* JavaScript values. A value is a record tagged with its type, so that    *)
(* undefined, the empty string and the empty object stay distinct.         *)
(***************************************************************************)
Undefined == [t |-> "undefined"]
Str(s) == [t |-> "string", v |-> s]
Num(n) == [t |-> "number", v |-> n]
Bool(b) == [t |-> "boolean", v |-> b]
\* an object: m is a function from property names to values
Obj(m) == [t |-> "object", v |-> m]
\* an array: s is a sequence of values
Arr(s) == [t |-> "array", v |-> s]
\* an Error instance with the given message
Err(m) == [t |-> "error", message |-> m]

\* the object literal {}
EmptyProps == [k \in {} |-> Undefined]

\* ToBoolean: undefined, "", 0 and false are falsy; objects, arrays and
\* errors are always truthy
Truthy(x) ==
    CASE x.t = "undefined" -> FALSE
      [] x.t = "string" -> x.v # ""
      [] x.t = "number" -> x.v # 0
      [] x.t = "boolean" -> x.v
      [] OTHER -> TRUE

\* a && b
And(a, b) == IF Truthy(a) THEN b ELSE a

\* a ?? b
Nullish(a, b) == IF a.t = "undefined" THEN b ELSE a

\* a default parameter value: used when the argument is undefined
Default(a, d) == IF a.t = "undefined" THEN d ELSE a

\* the own enumerable properties that ...x copies into an object literal:
\* those of an object; none for undefined, booleans, numbers and "" (the only
\* string an && guard lets through)
Spread(x) == IF x.t = "object" THEN x.v ELSE EmptyProps

\* { ...a, ...b } on property maps: b's properties are written last
SpreadMergeFirstWins(a, b) ==
    [k \in DOMAIN a \cup DOMAIN b |-> IF k \in DOMAIN a THEN a[k] ELSE b[k]]
SpreadMerge(a, b) ==
    [k \in DOMAIN a \cup DOMAIN b |-> IF k \in DOMAIN b THEN b[k] ELSE a[k]]

(***************************************************************************)
(* Program constants.                                                      *)
(***************************************************************************)
\* getItem(..., maxIterations = 10, ...) and query({ maxIterations = 10 })
DefaultMaxIterations == 10
\* getItem(..., delayInSeconds = 2) and query({ delayInSeconds = 2 })
DefaultDelayInSeconds == 2

NotFoundMessage == "record not found"
NoResultsMessage == "query returned no results after max retries"

(***************************************************************************)
(* getItem: the request built before the loop.                             *)
(***************************************************************************)
\* Key: { pk: keys.pk, ...(keys.sk && { sk: keys.sk }) }
getItemKeyAlwaysSk(keys) == [pk |-> keys.pk, sk |-> keys.sk]
getItemKey(keys) ==
    SpreadMerge([pk |-> keys.pk], Spread(And(keys.sk, Obj([sk |-> keys.sk]))))

\* params = { TableName: tableName, Key: {...} }
getItemParams(a) == [TableName |-> a.tableName, Key |-> getItemKey(a.keys)]

\* if (response.Item)
getItemSuccessNonEmpty(response) ==
    Truthy(response.Item) /\ DOMAIN response.Item.v # {}
getItemSuccess(response) == Truthy(response.Item)

(***************************************************************************)
(* query: the request built before the loop.                               *)
(***************************************************************************)
\* a baseParams literal with ScanIndexForward: scanIndexForward || true
queryBaseLiteralOrTrue(a) ==
    [TableName |-> a.tableName,
     KeyConditionExpression |-> a.keyConditionExpression,
     ExpressionAttributeValues |-> a.expressionAttributeValues,
     IndexName |-> a.indexName,
     Limit |-> a.limit,
     ConsistentRead |-> Nullish(a.consistentRead, Bool(FALSE)),
     ExclusiveStartKey |-> a.lastEvaluatedKey,
     ScanIndexForward |->
         IF Truthy(a.scanIndexForward) THEN a.scanIndexForward ELSE Bool(TRUE)]

\* the properties the baseParams literal always writes
queryBaseLiteral(a) ==
    [TableName |-> a.tableName,
     KeyConditionExpression |-> a.keyConditionExpression,
     ExpressionAttributeValues |-> a.expressionAttributeValues,
     IndexName |-> a.indexName,
     Limit |-> a.limit,
     ConsistentRead |-> Nullish(a.consistentRead, Bool(FALSE)),
     ExclusiveStartKey |-> a.lastEvaluatedKey,
     ScanIndexForward |-> Default(a.scanIndexForward, Bool(TRUE))]

\* if (expressionAttributeNames) baseParams.ExpressionAttributeNames = ...
queryWithNames(b, a) ==
    IF Truthy(a.expressionAttributeNames)
    THEN SpreadMerge(b, [ExpressionAttributeNames |-> a.expressionAttributeNames])
    ELSE b

\* if (filterExpression) { FilterExpression = ...;
\*   if (filterAttributeValues) ExpressionAttributeValues = {...old, ...filter} }
queryWithFilterUnguarded(b, a) ==
    LET f == IF Truthy(a.filterExpression)
             THEN SpreadMerge(b, [FilterExpression |-> a.filterExpression])
             ELSE b
    IN  IF Truthy(a.filterAttributeValues)
        THEN [f EXCEPT !.ExpressionAttributeValues =
                 Obj(SpreadMerge(Spread(b.ExpressionAttributeValues),
                                 Spread(a.filterAttributeValues)))]
        ELSE f
queryWithFilterKeyWins(b, a) ==
    IF Truthy(a.filterExpression)
    THEN LET f == SpreadMerge(b, [FilterExpression |-> a.filterExpression])
         IN  IF Truthy(a.filterAttributeValues)
             THEN [f EXCEPT !.ExpressionAttributeValues =
                      Obj(SpreadMerge(Spread(a.filterAttributeValues),
                                      Spread(b.ExpressionAttributeValues)))]
             ELSE f
    ELSE b
queryWithFilter(b, a) ==
    IF Truthy(a.filterExpression)
    THEN LET f == SpreadMerge(b, [FilterExpression |-> a.filterExpression])
         IN  IF Truthy(a.filterAttributeValues)
             THEN [f EXCEPT !.ExpressionAttributeValues =
                      Obj(SpreadMerge(Spread(b.ExpressionAttributeValues),
                                      Spread(a.filterAttributeValues)))]
             ELSE f
    ELSE b

queryParams(a) == queryWithFilter(queryWithNames(queryBaseLiteral(a), a), a)

\* const items = data.Items ?? []
queryItems(data) == Nullish(data.Items, Arr(<<>>))

\* if (items.length > 0 || data.LastEvaluatedKey)
querySuccessItemsOnly(data) == Len(queryItems(data).v) > 0
querySuccessDefinedItems(data) ==
    Truthy(data.Items) \/ Truthy(data.LastEvaluatedKey)
querySuccess(data) ==
    Len(queryItems(data).v) > 0 \/ Truthy(data.LastEvaluatedKey)

\* return { items, lastEvaluatedKey: data.LastEvaluatedKey }
queryResultRawItems(data) ==
    [items |-> data.Items, lastEvaluatedKey |-> data.LastEvaluatedKey]
queryResult(data) ==
    [items |-> queryItems(data), lastEvaluatedKey |-> data.LastEvaluatedKey]

(***************************************************************************)
(* The while loops.                                                        *)
(***************************************************************************)
maxIterationsOf(a) == Default(a.maxIterations, Num(DefaultMaxIterations)).v
\* delayInSeconds || 2 instead of a default parameter
delayInSecondsOfOr(a) ==
    IF Truthy(a.delayInSeconds) THEN a.delayInSeconds.v ELSE DefaultDelayInSeconds
delayInSecondsOf(a) == Default(a.delayInSeconds, Num(DefaultDelayInSeconds)).v

\* while (iteration <= maxIterations)
loopCondOneMore(it, a) == it <= maxIterationsOf(a) + 1
loopCondStrict(it, a) == it < maxIterationsOf(a)
loopCond(it, a) == it <= maxIterationsOf(a)

(***************************************************************************)
(* State. Every variable is a function over the invocations in progress:   *)
(* each invocation has its own locals, as each call of an async function   *)
(* has its own frame.                                                      *)
(***************************************************************************)
VARIABLES
    call,       \* call[p]: the function invoked and its arguments
    pc,         \* pc[p]: "called", "loop", "send" (awaiting the store),
                \*        "delay" (awaiting the timer), "done"
    params,     \* params[p]: the request object built before the loop
    iteration,  \* iteration[p]: the loop counter
    outcome,    \* outcome[p]: pending, returned a value, or threw an error
    sent,       \* sent[p]: the commands passed to send(), in order
    received,   \* received[p]: what each send() settled with, in order
    paused,     \* paused[p]: the arguments of the delay() calls, in order
    table,      \* the records the store holds (written by PutCommand)
    reads,      \* reads[p]: what the store read for each GetCommand it has
                \*           served, in order
    writes      \* the PutCommands the store has applied, in order, each with
                \* the progress of every invocation at that moment

vars == <<call, pc, params, iteration, outcome, sent, received, paused,
          table, reads, writes>>

\* the state of the store, which the pollers' own steps leave alone
storeVars == <<table, reads, writes>>

Pending == [status |-> "pending", value |-> Undefined]
Returned(v) == [status |-> "returned", value |-> v]
Threw(e) == [status |-> "threw", value |-> e]

\* a settled send(): resolved with a response or rejected with an error
Resolved(r) == [settled |-> "resolved", value |-> r]
Rejected(e) == [settled |-> "rejected", value |-> e]

(***************************************************************************)
(* Inputs.                                                                 *)
(***************************************************************************)
\* maxIterations as callers pass it: omitted, or a number (the code does not
\* restrict it to positive values)
IterationValues == {Undefined} \cup {Num(n) : n \in (0 - 1) .. MaxIterations}
DelayValues == {Undefined, Num(0), Num(3)}

PkValues == {Undefined, Str(""), Str("USER#1")}
SkValues == {Undefined, Str(""), Str("PROFILE")}

GetItemArgs ==
    [keys : [pk : PkValues, sk : SkValues],
     tableName : {Str("my-table")},
     maxIterations : IterationValues,
     delayInSeconds : DelayValues]

KeyValueMaps ==
    {Obj(":pk" :> "A"), Obj((":pk" :> "A") @@ (":prefix" :> "ORDER#"))}
FilterValueMaps ==
    {Undefined, Obj(EmptyProps), Obj(":pk" :> "B"),
     Obj((":pk" :> "B") @@ (":date" :> "2024-01-01"))}
FilterExpressions == {Undefined, Str(""), Str("createdAt > :date")}
StartKeys == {Undefined, Obj([pk |-> "K0"])}

\* the plain query of the first documentation example
QueryBasic ==
    [tableName |-> Str("orders-table"),
     keyConditionExpression |-> Str("pk = :pk"),
     expressionAttributeValues |-> Obj(":pk" :> "A"),
     expressionAttributeNames |-> Undefined,
     indexName |-> Undefined,
     limit |-> Undefined,
     filterExpression |-> Undefined,
     filterAttributeValues |-> Undefined,
     consistentRead |-> Undefined,
     lastEvaluatedKey |-> Undefined,
     scanIndexForward |-> Undefined,
     maxIterations |-> Num(2),
     delayInSeconds |-> Undefined]

\* queries that vary the retry policy
QueryRetryArgs ==
    {[QueryBasic EXCEPT !.maxIterations = n, !.delayInSeconds = d] :
        n \in IterationValues \ {Undefined}, d \in DelayValues}
    \cup {[QueryBasic EXCEPT !.maxIterations = Undefined,
                            !.delayInSeconds = d] : d \in DelayValues}

\* queries that vary the value maps and the filter
QueryFilterArgs ==
    {[QueryBasic EXCEPT !.expressionAttributeValues = kv,
                        !.filterExpression = fe,
                        !.filterAttributeValues = fv,
                        !.maxIterations = n] :
        kv \in KeyValueMaps, fe \in FilterExpressions, fv \in FilterValueMaps,
        n \in {Num(1), Num(2)}}

\* queries that vary the options handed through to the store
QueryOptionArgs ==
    {[QueryBasic EXCEPT !.expressionAttributeNames = en,
                        !.indexName = ix,
                        !.limit = lm,
                        !.consistentRead = cr,
                        !.lastEvaluatedKey = sk,
                        !.scanIndexForward = sf] :
        en \in {Undefined, Obj("#n" :> "name")},
        ix \in {Undefined, Str("status-index")},
        lm \in {Undefined, Num(5)},
        cr \in {Undefined, Bool(FALSE), Bool(TRUE)},
        sk \in StartKeys,
        sf \in {Undefined, Bool(FALSE), Bool(TRUE)}}

QueryArgs == QueryRetryArgs \cup QueryFilterArgs \cup QueryOptionArgs

Calls ==
    {[fn |-> "getItem", args |-> a] : a \in GetItemArgs}
    \cup {[fn |-> "query", args |-> a] : a \in QueryArgs}

(***************************************************************************)
(* The store, as the pollers see it.                                       *)
(***************************************************************************)
\* GetCommandOutput: Item is absent or an attribute map (possibly empty, or
\* with falsy attribute values)
GetResponses ==
    {[Item |-> Undefined],
     [Item |-> Obj(EmptyProps)],
     [Item |-> Obj([pk |-> Str("USER#1"), status |-> Str("")])],
     [Item |-> Obj([pk |-> Str("USER#1"), status |-> Str("ACTIVE")])]}

\* QueryCommandOutput: Items absent, empty or not; LastEvaluatedKey absent or
\* a key
QueryResponses ==
    [Items : {Undefined, Arr(<<>>), Arr(<<Obj([pk |-> Str("A")])>>),
              Arr(<<Obj([pk |-> Str("A")]), Obj([pk |-> Str("B")])>>)},
     LastEvaluatedKey : {Undefined, Obj([pk |-> "tok1"])}]

\* what send() rejects with
StoreErrors == {Err("ValidationException"), Err("AccessDeniedException")}

(***************************************************************************)
(* Init: one invocation has been made and its body has not run yet.        *)
(***************************************************************************)
Invocations == {1}

Init ==
    /\ call \in [Invocations -> Calls]
    /\ pc = [p \in Invocations |-> "called"]
    /\ params = [p \in Invocations |-> Undefined]
    /\ iteration = [p \in Invocations |-> 0]
    /\ outcome = [p \in Invocations |-> Pending]
    /\ sent = [p \in Invocations |-> <<>>]
    /\ received = [p \in Invocations |-> <<>>]
    /\ paused = [p \in Invocations |-> <<>>]
    /\ table = {}
    /\ reads = [p \in Invocations |-> <<>>]
    /\ writes = <<>>

Procs == DOMAIN pc

(***************************************************************************)
(* delay(delayInSeconds): arms a timer of delayInSeconds * 1000 ms; the    *)
(* call is recorded with its argument.                                     *)
(***************************************************************************)
\* setTimeout(resolve, delayInSeconds * 1000): the timer's duration in ms
timeoutMs(seconds) == seconds * 1000

\* a delay that grows with the attempt number
delayBackoff(p, seconds) ==
    paused' = [paused EXCEPT ![p] = Append(@, seconds * iteration[p])]
delay(p, seconds) == paused' = [paused EXCEPT ![p] = Append(@, seconds)]

(***************************************************************************)
(* getItem                                                                 *)
(***************************************************************************)
\* a getItem that rejects a falsy partition key before building the request
getItemBeginValidated(p) ==
    /\ call[p].fn = "getItem"
    /\ pc[p] = "called"
    /\ IF Truthy(call[p].args.keys.pk)
       THEN /\ params' = [params EXCEPT ![p] = getItemParams(call[p].args)]
            /\ iteration' = [iteration EXCEPT ![p] = 1]
            /\ pc' = [pc EXCEPT ![p] = "loop"]
            /\ UNCHANGED outcome
       ELSE /\ outcome' = [outcome EXCEPT ![p] = Threw(Err("pk is required"))]
            /\ pc' = [pc EXCEPT ![p] = "done"]
            /\ UNCHANGED <<params, iteration>>
    /\ UNCHANGED <<call, sent, received, paused>>
    /\ UNCHANGED storeVars

\* lines 47-58: builds params, let iteration = 1
getItemBegin(p) ==
    /\ call[p].fn = "getItem"
    /\ pc[p] = "called"
    /\ params' = [params EXCEPT ![p] = getItemParams(call[p].args)]
    /\ iteration' = [iteration EXCEPT ![p] = 1]
    /\ pc' = [pc EXCEPT ![p] = "loop"]
    /\ UNCHANGED <<call, outcome, sent, received, paused>>
    /\ UNCHANGED storeVars

\* line 59 true, line 61: docClient.send(new GetCommand(params))
getItemSend(p) ==
    /\ call[p].fn = "getItem"
    /\ pc[p] = "loop"
    /\ loopCond(iteration[p], call[p].args)
    /\ sent' = [sent EXCEPT ![p] = Append(@, params[p])]
    /\ pc' = [pc EXCEPT ![p] = "send"]
    /\ UNCHANGED <<call, params, iteration, outcome, received, paused>>
    /\ UNCHANGED storeVars

\* line 59 false, line 74: throw new Error('record not found')
getItemNotFound(p) ==
    /\ call[p].fn = "getItem"
    /\ pc[p] = "loop"
    /\ ~loopCond(iteration[p], call[p].args)
    /\ outcome' = [outcome EXCEPT ![p] = Threw(Err(NotFoundMessage))]
    /\ pc' = [pc EXCEPT ![p] = "done"]
    /\ UNCHANGED <<call, params, iteration, sent, received, paused>>
    /\ UNCHANGED storeVars

\* a getItem that does not pause after the last attempt of its budget
getItemResponseNoFinalPause(p) ==
    /\ call[p].fn = "getItem"
    /\ pc[p] = "send"
    /\ \E response \in GetResponses :
        /\ received' = [received EXCEPT ![p] = Append(@, Resolved(response))]
        /\ IF getItemSuccess(response)
           THEN /\ outcome' = [outcome EXCEPT ![p] = Returned(response.Item)]
                /\ pc' = [pc EXCEPT ![p] = "done"]
                /\ UNCHANGED <<paused, iteration>>
           ELSE IF iteration[p] >= maxIterationsOf(call[p].args)
                THEN /\ iteration' = [iteration EXCEPT ![p] = @ + 1]
                     /\ pc' = [pc EXCEPT ![p] = "loop"]
                     /\ UNCHANGED <<outcome, paused>>
                ELSE /\ delay(p, delayInSecondsOf(call[p].args))
                     /\ pc' = [pc EXCEPT ![p] = "delay"]
                     /\ UNCHANGED <<outcome, iteration>>
    /\ UNCHANGED <<call, params, sent>>
    /\ UNCHANGED storeVars

\* a getItem that pauses before it looks at the response
getItemResponsePauseFirst(p) ==
    /\ call[p].fn = "getItem"
    /\ pc[p] = "send"
    /\ \E response \in GetResponses :
        /\ received' = [received EXCEPT ![p] = Append(@, Resolved(response))]
        /\ delay(p, delayInSecondsOf(call[p].args))
        /\ IF getItemSuccess(response)
           THEN /\ outcome' = [outcome EXCEPT ![p] = Returned(response.Item)]
                /\ pc' = [pc EXCEPT ![p] = "done"]
           ELSE /\ pc' = [pc EXCEPT ![p] = "delay"]
                /\ UNCHANGED outcome
    /\ UNCHANGED <<call, params, iteration, sent>>
    /\ UNCHANGED storeVars

\* lines 61-64 and 69: the send resolves; return response.Item, or delay
getItemResponse(p) ==
    /\ call[p].fn = "getItem"
    /\ pc[p] = "send"
    /\ \E response \in GetResponses :
        /\ received' = [received EXCEPT ![p] = Append(@, Resolved(response))]
        /\ IF getItemSuccess(response)
           THEN /\ outcome' = [outcome EXCEPT ![p] = Returned(response.Item)]
                /\ pc' = [pc EXCEPT ![p] = "done"]
                /\ UNCHANGED paused
           ELSE /\ delay(p, delayInSecondsOf(call[p].args))
                /\ pc' = [pc EXCEPT ![p] = "delay"]
                /\ UNCHANGED outcome
    /\ UNCHANGED <<call, params, iteration, sent>>
    /\ UNCHANGED storeVars

\* a getItem whose catch block logs the error and goes on polling
getItemCatchRetry(p) ==
    /\ call[p].fn = "getItem"
    /\ pc[p] = "send"
    /\ \E error \in StoreErrors :
        received' = [received EXCEPT ![p] = Append(@, Rejected(error))]
    /\ delay(p, delayInSecondsOf(call[p].args))
    /\ pc' = [pc EXCEPT ![p] = "delay"]
    /\ UNCHANGED <<call, params, iteration, outcome, sent>>
    /\ UNCHANGED storeVars

\* lines 65-68: the send rejects; console.error, throw error
getItemCatch(p) ==
    /\ call[p].fn = "getItem"
    /\ pc[p] = "send"
    /\ \E error \in StoreErrors :
        /\ received' = [received EXCEPT ![p] = Append(@, Rejected(error))]
        /\ outcome' = [outcome EXCEPT ![p] = Threw(error)]
    /\ pc' = [pc EXCEPT ![p] = "done"]
    /\ UNCHANGED <<call, params, iteration, sent, paused>>
    /\ UNCHANGED storeVars

\* a getItem whose counter advances by two per failed attempt
getItemDelayedSkip(p) ==
    /\ call[p].fn = "getItem"
    /\ pc[p] = "delay"
    /\ iteration' = [iteration EXCEPT ![p] = @ + 2]
    /\ pc' = [pc EXCEPT ![p] = "loop"]
    /\ UNCHANGED <<call, params, outcome, sent, received, paused>>
    /\ UNCHANGED storeVars

\* a getItem whose counter is one variable shared by all invocations
getItemDelayedShared(p) ==
    /\ call[p].fn = "getItem"
    /\ pc[p] = "delay"
    /\ iteration' = [q \in DOMAIN iteration |-> iteration[q] + 1]
    /\ pc' = [pc EXCEPT ![p] = "loop"]
    /\ UNCHANGED <<call, params, outcome, sent, received, paused>>
    /\ UNCHANGED storeVars

\* lines 69-71: the delay completes; iteration++
getItemDelayed(p) ==
    /\ call[p].fn = "getItem"
    /\ pc[p] = "delay"
    /\ iteration' = [iteration EXCEPT ![p] = @ + 1]
    /\ pc' = [pc EXCEPT ![p] = "loop"]
    /\ UNCHANGED <<call, params, outcome, sent, received, paused>>
    /\ UNCHANGED storeVars

(***************************************************************************)
(* query                                                                   *)
(***************************************************************************)
\* lines 110-135: builds baseParams, let iteration = 1
queryBegin(p) ==
    /\ call[p].fn = "query"
    /\ pc[p] = "called"
    /\ params' = [params EXCEPT ![p] = queryParams(call[p].args)]
    /\ iteration' = [iteration EXCEPT ![p] = 1]
    /\ pc' = [pc EXCEPT ![p] = "loop"]
    /\ UNCHANGED <<call, outcome, sent, received, paused>>
    /\ UNCHANGED storeVars

\* line 136 true, lines 138-140: dynamoDb.send(new QueryCommand(baseParams))
querySend(p) ==
    /\ call[p].fn = "query"
    /\ pc[p] = "loop"
    /\ loopCond(iteration[p], call[p].args)
    /\ sent' = [sent EXCEPT ![p] = Append(@, params[p])]
    /\ pc' = [pc EXCEPT ![p] = "send"]
    /\ UNCHANGED <<call, params, iteration, outcome, received, paused>>
    /\ UNCHANGED storeVars

\* line 136 false, line 155: throw new Error('query returned no results ...')
queryNoResults(p) ==
    /\ call[p].fn = "query"
    /\ pc[p] = "loop"
    /\ ~loopCond(iteration[p], call[p].args)
    /\ outcome' = [outcome EXCEPT ![p] = Threw(Err(NoResultsMessage))]
    /\ pc' = [pc EXCEPT ![p] = "done"]
    /\ UNCHANGED <<call, params, iteration, sent, received, paused>>
    /\ UNCHANGED storeVars

\* lines 138-145 and 151: the send resolves; return the page, or delay
queryResponse(p) ==
    /\ call[p].fn = "query"
    /\ pc[p] = "send"
    /\ \E data \in QueryResponses :
        /\ received' = [received EXCEPT ![p] = Append(@, Resolved(data))]
        /\ IF querySuccess(data)
           THEN /\ outcome' = [outcome EXCEPT ![p] = Returned(queryResult(data))]
                /\ pc' = [pc EXCEPT ![p] = "done"]
                /\ UNCHANGED paused
           ELSE /\ delay(p, delayInSecondsOf(call[p].args))
                /\ pc' = [pc EXCEPT ![p] = "delay"]
                /\ UNCHANGED outcome
    /\ UNCHANGED <<call, params, iteration, sent>>
    /\ UNCHANGED storeVars

\* lines 146-149: the send rejects; console.error, throw error
queryCatch(p) ==
    /\ call[p].fn = "query"
    /\ pc[p] = "send"
    /\ \E error \in StoreErrors :
        /\ received' = [received EXCEPT ![p] = Append(@, Rejected(error))]
        /\ outcome' = [outcome EXCEPT ![p] = Threw(error)]
    /\ pc' = [pc EXCEPT ![p] = "done"]
    /\ UNCHANGED <<call, params, iteration, sent, paused>>
    /\ UNCHANGED storeVars

\* lines 151-152: the delay completes; iteration++
queryDelayedNextPage(p) ==
    /\ call[p].fn = "query"
    /\ pc[p] = "delay"
    /\ iteration' = [iteration EXCEPT ![p] = @ + 1]
    /\ params' = [params EXCEPT ![p].ExclusiveStartKey =
                    received[p][Len(received[p])].value.LastEvaluatedKey]
    /\ pc' = [pc EXCEPT ![p] = "loop"]
    /\ UNCHANGED <<call, outcome, sent, received, paused>>
    /\ UNCHANGED storeVars
queryDelayed(p) ==
    /\ call[p].fn = "query"
    /\ pc[p] = "delay"
    /\ iteration' = [iteration EXCEPT ![p] = @ + 1]
    /\ pc' = [pc EXCEPT ![p] = "loop"]
    /\ UNCHANGED <<call, params, outcome, sent, received, paused>>
    /\ UNCHANGED storeVars

Next ==
    \/ \E p \in Procs : getItemBegin(p)
    \/ \E p \in Procs : getItemSend(p)
    \/ \E p \in Procs : getItemNotFound(p)
    \/ \E p \in Procs : getItemResponse(p)
    \/ \E p \in Procs : getItemCatch(p)
    \/ \E p \in Procs : getItemDelayed(p)
    \/ \E p \in Procs : queryBegin(p)
    \/ \E p \in Procs : querySend(p)
    \/ \E p \in Procs : queryNoResults(p)
    \/ \E p \in Procs : queryResponse(p)
    \/ \E p \in Procs : queryCatch(p)
    \/ \E p \in Procs : queryDelayed(p)

Spec == Init /\ [][Next]_vars

(***************************************************************************)
(* Two invocations in progress at once (any mix of getItem and query),     *)
(* interleaved at their await points.                                      *)
(***************************************************************************)
ConcInvocations == {1, 2}

ConcCalls ==
    {[fn |-> "getItem",
      args |-> [keys |-> [pk |-> Str("USER#1"), sk |-> sk],
                tableName |-> Str("my-table"),
                maxIterations |-> n,
                delayInSeconds |-> Undefined]] :
        sk \in {Undefined, Str("PROFILE")}, n \in {Num(1), Num(2)}}
    \cup {[fn |-> "query", args |-> [QueryBasic EXCEPT !.maxIterations = n]] :
            n \in {Num(1), Num(2)}}

InitConc ==
    /\ call \in [ConcInvocations -> ConcCalls]
    /\ pc = [p \in ConcInvocations |-> "called"]
    /\ params = [p \in ConcInvocations |-> Undefined]
    /\ iteration = [p \in ConcInvocations |-> 0]
    /\ outcome = [p \in ConcInvocations |-> Pending]
    /\ sent = [p \in ConcInvocations |-> <<>>]
    /\ received = [p \in ConcInvocations |-> <<>>]
    /\ paused = [p \in ConcInvocations |-> <<>>]
    /\ table = {}
    /\ reads = [p \in ConcInvocations |-> <<>>]
    /\ writes = <<>>

SpecConc == InitConc /\ [][Next]_vars

\* every store call is answered or fails, every timer fires, and every ready
\* continuation of the invocation is run
SpecFair == Init /\ [][Next]_vars /\ WF_vars(Next)

(***************************************************************************)
(* putItem (src/dynamo-db/put-item.ts)                                     *)
(***************************************************************************)
\* params = { TableName: tableName, Item: item }
putItemParams(a) == [TableName |-> a.tableName, Item |-> a.item]

\* the store has applied the PutCommand of invocation p
Applied(p) == \E i \in 1 .. Len(writes) : writes[i].by = p

\* lines 33-42: builds params, docClient.send(new PutCommand(params))
putItemBegin(p) ==
    /\ call[p].fn = "putItem"
    /\ pc[p] = "called"
    /\ params' = [params EXCEPT ![p] = putItemParams(call[p].args)]
    /\ sent' = [sent EXCEPT ![p] = Append(@, putItemParams(call[p].args))]
    /\ pc' = [pc EXCEPT ![p] = "send"]
    /\ UNCHANGED <<call, iteration, outcome, received, paused>>
    /\ UNCHANGED storeVars

\* line 42 resolves (the store has written the item); the function returns
putItemResponse(p) ==
    /\ call[p].fn = "putItem"
    /\ pc[p] = "send"
    /\ Applied(p)
    /\ received' = [received EXCEPT ![p] = Append(@, Resolved(Undefined))]
    /\ outcome' = [outcome EXCEPT ![p] = Returned(Undefined)]
    /\ pc' = [pc EXCEPT ![p] = "done"]
    /\ UNCHANGED <<call, params, iteration, sent, paused>>
    /\ UNCHANGED storeVars

\* lines 43-46: the send rejects; console.error, throw error
putItemCatch(p) ==
    /\ call[p].fn = "putItem"
    /\ pc[p] = "send"
    /\ \E error \in StoreErrors :
        /\ received' = [received EXCEPT ![p] = Append(@, Rejected(error))]
        /\ outcome' = [outcome EXCEPT ![p] = Threw(error)]
    /\ pc' = [pc EXCEPT ![p] = "done"]
    /\ UNCHANGED <<call, params, iteration, sent, paused>>
    /\ UNCHANGED storeVars

(***************************************************************************)
(* The store behind docClient.send, when reads reflect completed writes:   *)
(* a PutCommand takes effect, and a GetCommand reads, at one moment        *)
(* between the send and its answer.                                        *)
(***************************************************************************)
\* the key attributes of an item
KeyOfItem(item) == [k \in DOMAIN item \cap {"pk", "sk"} |-> item[k]]

\* the record the table holds under a key: the Item of a GetCommandOutput
Lookup(tableName, key) ==
    IF \E r \in table : r.TableName = tableName /\ r.Key = key
    THEN Obj((CHOOSE r \in table : r.TableName = tableName /\ r.Key = key).Item)
    ELSE Undefined

\* the progress of every invocation, stamped on a write
Progress ==
    [q \in Procs |-> [sent |-> Len(sent[q]), reads |-> Len(reads[q]),
                      received |-> Len(received[q])]]

\* the store applies the PutCommand in flight: inserts or replaces the item
storeApplyPut(p) ==
    /\ call[p].fn = "putItem"
    /\ pc[p] = "send"
    /\ ~Applied(p)
    /\ LET cmd == sent[p][Len(sent[p])]
           key == KeyOfItem(cmd.Item.v)
       IN  /\ table' =
                {r \in table : ~(r.TableName = cmd.TableName /\ r.Key = key)}
                \cup {[TableName |-> cmd.TableName, Key |-> key,
                       Item |-> cmd.Item.v]}
           /\ writes' =
                Append(writes, [by |-> p, TableName |-> cmd.TableName,
                                Key |-> key, Item |-> cmd.Item.v,
                                at |-> Progress])
    /\ UNCHANGED <<call, pc, params, iteration, outcome, sent, received,
                   paused, reads>>

\* the store reads the record for the GetCommand in flight
storeServeGet(p) ==
    /\ call[p].fn = "getItem"
    /\ pc[p] = "send"
    /\ Len(reads[p]) < Len(sent[p])
    /\ LET cmd == sent[p][Len(sent[p])]
       IN  reads' = [reads EXCEPT ![p] =
                        Append(@, [Item |-> Lookup(cmd.TableName, cmd.Key)])]
    /\ UNCHANGED <<call, pc, params, iteration, outcome, sent, received,
                   paused, table, writes>>

\* the answer to getItem's send is what the store read
storeGetItemResponse(p) ==
    /\ Len(reads[p]) = Len(sent[p])
    /\ getItemResponse(p)
    /\ received'[p][Len(received'[p])] = Resolved(reads[p][Len(reads[p])])

(***************************************************************************)
(* A getItem polling while a putItem writes (a fixture, or the flow under  *)
(* test).                                                                  *)
(***************************************************************************)
StoreItems ==
    {Obj([pk |-> Str("USER#1"), status |-> Str("ACTIVE")]),
     Obj([pk |-> Str("USER#2"), status |-> Str("ACTIVE")])}

InitStore ==
    /\ call \in
         {[q \in {1, 2} |-> IF q = 1 THEN g ELSE w] :
            g \in {[fn |-> "getItem",
                    args |-> [keys |-> [pk |-> Str("USER#1"), sk |-> Undefined],
                              tableName |-> Str("my-table"),
                              maxIterations |-> Num(n),
                              delayInSeconds |-> Undefined]] :
                     n \in 1 .. MaxIterations},
            w \in {[fn |-> "putItem",
                    args |-> [tableName |-> t, item |-> it]] :
                     t \in {Str("my-table"), Str("other-table")},
                     it \in StoreItems}}
    /\ pc = [p \in {1, 2} |-> "called"]
    /\ params = [p \in {1, 2} |-> Undefined]
    /\ iteration = [p \in {1, 2} |-> 0]
    /\ outcome = [p \in {1, 2} |-> Pending]
    /\ sent = [p \in {1, 2} |-> <<>>]
    /\ received = [p \in {1, 2} |-> <<>>]
    /\ paused = [p \in {1, 2} |-> <<>>]
    /\ table = {}
    /\ reads = [p \in {1, 2} |-> <<>>]
    /\ writes = <<>>

NextStore ==
    \/ \E p \in Procs : getItemBegin(p)
    \/ \E p \in Procs : getItemSend(p)
    \/ \E p \in Procs : getItemNotFound(p)
    \/ \E p \in Procs : storeServeGet(p)
    \/ \E p \in Procs : storeGetItemResponse(p)
    \/ \E p \in Procs : getItemCatch(p)
    \/ \E p \in Procs : getItemDelayed(p)
    \/ \E p \in Procs : putItemBegin(p)
    \/ \E p \in Procs : storeApplyPut(p)
    \/ \E p \in Procs : putItemResponse(p)
    \/ \E p \in Procs : putItemCatch(p)

\* every pending continuation is run: the store answers, timers fire
SpecStore == InitStore /\ [][NextStore]_vars /\ WF_vars(NextStore)

(***************************************************************************)
(* The fetch-based helpers: httpCall (src/utils/http-call.ts),             *)
(* generateAccessToken (src/utils/generate-access-token.ts and             *)
(* src/cognito/generate-access-token.ts) and generateUserAccessToken       *)
(* (src/cognito/generate-user-access-token.ts). The remote endpoint behind *)
(* fetch is the environment.                                               *)
(***************************************************************************)
\* signal: AbortSignal.timeout(10_000)
FetchTimeoutMs == 10000

\* String(x)
JsString(x) ==
    CASE x.t = "string" -> x.v
      [] x.t = "number" -> ToString(x.v)
      [] x.t = "boolean" -> IF x.v THEN "true" ELSE "false"
      [] x.t = "undefined" -> "undefined"
      [] x.t = "error" -> "Error: " \o x.message
      [] OTHER -> "[object Object]"

\* `API Error: ${response.status} - ${errorData}`
apiErrorMessageNoStatus(status, errorData) == "API Error: " \o errorData
apiErrorMessage(status, errorData) ==
    "API Error: " \o ToString(status) \o " - " \o errorData

\* catch (error): an Error is rethrown, anything else is wrapped
catchErrorWrapAll(error) == Err("Unknown error: " \o JsString(error))
catchError(error) ==
    IF error.t = "error" THEN error
    ELSE Err("Unknown error: " \o JsString(error))

\* the response bodies the endpoint sends
BodyTexts ==
    {"Unauthorized", "",
     "{}",
     "{\"id\":\"1\"}",
     "{\"access_token\":\"tok-1\"}",
     "{\"AuthenticationResult\":{\"AccessToken\":\"tok-2\"}}"}

\* response.json(): the body parsed as JSON; a body that is not JSON rejects
\* with the SyntaxError of JSON.parse (the message is the runtime's)
JsonParse(text) ==
    CASE text = "{}" -> Resolved(Obj(EmptyProps))
      [] text = "{\"id\":\"1\"}" -> Resolved(Obj([id |-> Str("1")]))
      [] text = "{\"access_token\":\"tok-1\"}" ->
            Resolved(Obj([access_token |-> Str("tok-1")]))
      [] text = "{\"AuthenticationResult\":{\"AccessToken\":\"tok-2\"}}" ->
            Resolved(Obj([AuthenticationResult |->
                              Obj([AccessToken |-> Str("tok-2")])]))
      [] text = "" -> Rejected(Err("Unexpected end of JSON input"))
      [] text = "Unauthorized" ->
            Rejected(Err("Unexpected token 'U', \"Unauthorized\" is not valid JSON"))

\* response.ok: the status is in the range 200-299
StatusCodes == {200, 201, 400, 401, 500}
HttpResponses ==
    {[status |-> st, ok |-> (st >= 200 /\ st <= 299), body |-> b] :
        st \in StatusCodes, b \in BodyTexts}

\* what a rejected fetch throws: a network error, the timeout of the signal,
\* or (from a stubbed fetch) a value that is not an Error
FetchFailures ==
    {Err("fetch failed"), Err("The operation was aborted due to timeout"),
     Str("string error"), Num(42)}

\* reading the body can fail once the headers have arrived
BodyFailures == {Err("terminated")}

\* await response.text()
TextOutcomes(response) ==
    {Resolved(Str(response.body))} \cup {Rejected(e) : e \in BodyFailures}

\* await response.json()
JsonOutcomes(response) ==
    {JsonParse(response.body)} \cup {Rejected(e) : e \in BodyFailures}

\* obj.name: undefined when the object has no such property
Prop(obj, name) == IF name \in DOMAIN obj.v THEN obj.v[name] ELSE Undefined

\* await fetch(url, init) is issued
fetchIssue(p, request) ==
    /\ pc[p] = "called"
    /\ params' = [params EXCEPT ![p] = request]
    /\ sent' = [sent EXCEPT ![p] = Append(@, request)]
    /\ pc' = [pc EXCEPT ![p] = "fetch"]
    /\ UNCHANGED <<call, iteration, outcome, received, paused>>
    /\ UNCHANGED storeVars

\* fetch rejects: the catch block rethrows or wraps
fetchRejectedRetry(p) ==
    /\ pc[p] = "fetch"
    /\ Len(sent[p]) < 2
    /\ \E error \in FetchFailures :
        received' = [received EXCEPT ![p] = Append(@, Rejected(error))]
    /\ sent' = [sent EXCEPT ![p] = Append(@, params[p])]
    /\ UNCHANGED <<call, pc, params, iteration, outcome, paused>>
    /\ UNCHANGED storeVars
fetchRejected(p) ==
    /\ pc[p] = "fetch"
    /\ \E error \in FetchFailures :
        /\ received' = [received EXCEPT ![p] = Append(@, Rejected(error))]
        /\ outcome' = [outcome EXCEPT ![p] = Threw(catchError(error))]
    /\ pc' = [pc EXCEPT ![p] = "done"]
    /\ UNCHANGED <<call, params, iteration, sent, paused>>
    /\ UNCHANGED storeVars

\* fetch resolves: if (!response.ok) the body is read as text, otherwise as
\* JSON
fetchResponse(p) ==
    /\ pc[p] = "fetch"
    /\ \E response \in HttpResponses :
        /\ received' = [received EXCEPT ![p] = Append(@, Resolved(response))]
        /\ pc' = [pc EXCEPT ![p] = IF ~response.ok THEN "text" ELSE "json"]
    /\ UNCHANGED <<call, params, iteration, outcome, sent, paused>>
    /\ UNCHANGED storeVars

\* const errorData = await response.text(); throw new Error(`API Error: ...`)
fetchErrorBody(p) ==
    /\ pc[p] = "text"
    /\ LET response == received[p][Len(received[p])].value
       IN  \E errorData \in TextOutcomes(response) :
            /\ received' = [received EXCEPT ![p] = Append(@, errorData)]
            /\ outcome' = [outcome EXCEPT ![p] =
                 IF errorData.settled = "resolved"
                 THEN Threw(catchError(Err(
                        apiErrorMessage(response.status, errorData.value.v))))
                 ELSE Threw(catchError(errorData.value))]
    /\ pc' = [pc EXCEPT ![p] = "done"]
    /\ UNCHANGED <<call, params, iteration, sent, paused>>
    /\ UNCHANGED storeVars

\* the return expression after await response.json(): the parsed body itself
\* (httpCall), data.access_token, or data.AuthenticationResult.AccessToken,
\* where reading a property of undefined throws a TypeError that the catch
\* block rethrows
jsonResult(field, data) ==
    CASE field = "body" -> Returned(data)
      [] field = "access_token" -> Returned(Prop(data, "access_token"))
      [] field = "AccessToken" ->
            IF Prop(data, "AuthenticationResult") = Undefined
            THEN Threw(catchError(Err(
                   "Cannot read properties of undefined (reading 'AccessToken')")))
            ELSE Returned(Prop(Prop(data, "AuthenticationResult"), "AccessToken"))

\* await response.json(), then the function's return expression
fetchJsonBody(p, field) ==
    /\ pc[p] = "json"
    /\ LET response == received[p][Len(received[p])].value
       IN  \E data \in JsonOutcomes(response) :
            /\ received' = [received EXCEPT ![p] = Append(@, data)]
            /\ outcome' = [outcome EXCEPT ![p] =
                 IF data.settled = "resolved"
                 THEN jsonResult(field, data.value)
                 ELSE Threw(catchError(data.value))]
    /\ pc' = [pc EXCEPT ![p] = "done"]
    /\ UNCHANGED <<call, params, iteration, sent, paused>>
    /\ UNCHANGED storeVars

(***************************************************************************)
(* httpCall                                                                *)
(***************************************************************************)
\* method.toUpperCase()
ToUpperCase(s) ==
    CASE s = "get" -> "GET"
      [] s = "post" -> "POST"
      [] s = "Put" -> "PUT"
      [] OTHER -> s

\* JSON.stringify(payload)
JsonStringify(x) ==
    CASE x = Obj(EmptyProps) -> "{}"
      [] x = Obj([productId |-> Str("PROD-123")]) ->
            "{\"productId\":\"PROD-123\"}"
      [] OTHER -> "null"

\* the url and init httpCall hands to fetch
httpCallRequest(a) ==
    [url |-> a.endpoint \o a.resource,
     method |-> ToUpperCase(a.method),
     headers |-> SpreadMerge(("Content-Type" :> Str("application/json")),
                             Spread(a.headers)),
     body |-> IF Truthy(a.payload) THEN Str(JsonStringify(a.payload))
              ELSE Undefined,
     timeout |-> FetchTimeoutMs]

httpCallBegin(p) ==
    call[p].fn = "httpCall" /\ fetchIssue(p, httpCallRequest(call[p].args))
httpCallFetchRejected(p) == call[p].fn = "httpCall" /\ fetchRejected(p)
httpCallResponse(p) == call[p].fn = "httpCall" /\ fetchResponse(p)
httpCallErrorBody(p) == call[p].fn = "httpCall" /\ fetchErrorBody(p)
httpCallJsonBody(p) ==
    call[p].fn = "httpCall" /\ fetchJsonBody(p, "body")

HttpCallArgs ==
    {[endpoint |-> "https://api.example.com", resource |-> r, method |-> m,
      payload |-> pl, headers |-> h] :
        r \in {"/orders", ""},
        m \in {"post", "GET"},
        pl \in {Undefined, Obj(EmptyProps), Obj([productId |-> Str("PROD-123")])},
        h \in {Undefined,
               Obj(("Authorization" :> Str("Bearer tok-1"))),
               Obj(("Content-Type" :> Str("text/plain"))),
               Obj(("Authorization" :> Str("Bearer tok-1"))
                     @@ ("content-type" :> Str("text/plain")))}}

(***************************************************************************)
(* generateAccessToken (src/utils/generate-access-token.ts)                *)
(***************************************************************************)
\* scopes.join(' ')
RECURSIVE Join(_)
Join(strs) ==
    IF Len(strs) = 0 THEN ""
    ELSE IF Len(strs) = 1 THEN strs[1].v
    ELSE strs[1].v \o " " \o Join(Tail(strs))

\* application/x-www-form-urlencoded serialisation of one name or value:
\* a space becomes '+', ':' becomes %3A
FormEncode(s) ==
    CASE s = "read:users write:orders" -> "read%3Ausers+write%3Aorders"
      [] s = "write:orders read:users" -> "write%3Aorders+read%3Ausers"
      [] s = "read write" -> "read+write"
      [] OTHER -> s

\* new URLSearchParams({ grant_type, ...(scopes.length && { scope }) })
tokenPayloadAlwaysScope(scopes) ==
    SpreadMerge([grant_type |-> Str("client_credentials")],
                [scope |-> Str(Join(scopes.v))])
tokenPayload(scopes) ==
    SpreadMerge([grant_type |-> Str("client_credentials")],
                Spread(And(Num(Len(scopes.v)),
                           Obj([scope |-> Str(Join(scopes.v))]))))

\* payload.toString(): name=value pairs in insertion order, joined by '&'
payloadToString(m) ==
    "grant_type=" \o FormEncode(m["grant_type"].v)
        \o (IF "scope" \in DOMAIN m
            THEN "&scope=" \o FormEncode(m["scope"].v) ELSE "")

\* the UTF-16 code units of the credential strings the callers pass
CodeUnits(s) ==
    CASE s = "client-1:secret-1" ->
            <<99, 108, 105, 101, 110, 116, 45, 49, 58, 115, 101,
              99, 114, 101, 116, 45, 49>>
      [] s = "my-client-id:my-client-secret" ->
            <<109, 121, 45, 99, 108, 105, 101, 110, 116, 45,
              105, 100, 58, 109, 121, 45, 99, 108, 105, 101,
              110, 116, 45, 115, 101, 99, 114, 101, 116>>
      [] s = "my-client-id:env-client-secret" ->
            <<109, 121, 45, 99, 108, 105, 101, 110, 116, 45,
              105, 100, 58, 101, 110, 118, 45, 99, 108, 105,
              101, 110, 116, 45, 115, 101, 99, 114, 101, 116>>
      [] s = "env-client-id:my-client-secret" ->
            <<101, 110, 118, 45, 99, 108, 105, 101, 110, 116,
              45, 105, 100, 58, 109, 121, 45, 99, 108, 105, 101,
              110, 116, 45, 115, 101, 99, 114, 101, 116>>
      [] s = "env-client-id:env-client-secret" ->
            <<101, 110, 118, 45, 99, 108, 105, 101, 110, 116,
              45, 105, 100, 58, 101, 110, 118, 45, 99, 108, 105,
              101, 110, 116, 45, 115, 101, 99, 114, 101, 116>>

\* UTF-16 surrogates: D800-DBFF (high) and DC00-DFFF (low)
IsHighSurrogate(u) == u >= 55296 /\ u <= 56319
IsLowSurrogate(u) == u >= 56320 /\ u <= 57343

\* Buffer.from(string): the UTF-8 bytes of a string given as UTF-16 code
\* units; a surrogate pair is one code point of four bytes, an unpaired
\* surrogate is written as U+FFFD (EF BF BD)
RECURSIVE utf8Encode(_)
utf8Encode(units) ==
    IF Len(units) = 0 THEN <<>>
    ELSE LET u == units[1]
         IN  IF u < 128 THEN <<u>> \o utf8Encode(Tail(units))
             ELSE IF u < 2048
             THEN <<192 + (u \div 64), 128 + (u % 64)>> \o utf8Encode(Tail(units))
             ELSE IF IsHighSurrogate(u) /\ Len(units) >= 2
                       /\ IsLowSurrogate(units[2])
             THEN LET cp == 65536 + (u - 55296) * 1024 + (units[2] - 56320)
                  IN  <<240 + (cp \div 262144), 128 + ((cp \div 4096) % 64),
                        128 + ((cp \div 64) % 64), 128 + (cp % 64)>>
                        \o utf8Encode(Tail(Tail(units)))
             ELSE IF IsHighSurrogate(u) \/ IsLowSurrogate(u)
             THEN <<239, 191, 189>> \o utf8Encode(Tail(units))
             ELSE <<224 + (u \div 4096), 128 + ((u \div 64) % 64), 128 + (u % 64)>>
                    \o utf8Encode(Tail(units))

\* buffer.toString('base64'): three bytes become four 6-bit digits; a last
\* group of one or two bytes is completed with '=' (written 64 here)
RECURSIVE base64EncodeWholeGroups(_)
base64EncodeWholeGroups(b) ==
    IF Len(b) < 3 THEN <<>>
    ELSE <<b[1] \div 4, (b[1] % 4) * 16 + (b[2] \div 16),
           (b[2] % 16) * 4 + (b[3] \div 64), b[3] % 64>>
           \o base64EncodeWholeGroups(SubSeq(b, 4, Len(b)))
RECURSIVE base64Encode(_)
base64Encode(b) ==
    IF Len(b) = 0 THEN <<>>
    ELSE IF Len(b) = 1 THEN <<b[1] \div 4, (b[1] % 4) * 16, 64, 64>>
    ELSE IF Len(b) = 2
    THEN <<b[1] \div 4, (b[1] % 4) * 16 + (b[2] \div 16), (b[2] % 16) * 4, 64>>
    ELSE <<b[1] \div 4, (b[1] % 4) * 16 + (b[2] \div 16),
           (b[2] % 16) * 4 + (b[3] \div 64), b[3] % 64>>
           \o base64Encode(SubSeq(b, 4, Len(b)))

\* the base64 alphabet
Base64Chars ==
    <<"A", "B", "C", "D", "E", "F", "G", "H", "I", "J", "K", "L", "M",
      "N", "O", "P", "Q", "R", "S", "T", "U", "V", "W", "X", "Y", "Z",
      "a", "b", "c", "d", "e", "f", "g", "h", "i", "j", "k", "l", "m",
      "n", "o", "p", "q", "r", "s", "t", "u", "v", "w", "x", "y", "z",
      "0", "1", "2", "3", "4", "5", "6", "7", "8", "9", "+", "/">>

\* base64 digits written as a string
RECURSIVE DigitsText(_)
DigitsText(digits) ==
    IF Len(digits) = 0 THEN ""
    ELSE (IF digits[1] = 64 THEN "=" ELSE Base64Chars[digits[1] + 1])
           \o DigitsText(Tail(digits))

\* Buffer.from(s).toString('base64')
Base64(s) == DigitsText(base64Encode(utf8Encode(CodeUnits(s))))

\* the url and init both generateAccessToken variants hand to fetch
tokenRequest(url, clientId, clientSecret, scopes) ==
    [url |-> url \o "/oauth2/token",
     method |-> "POST",
     headers |-> [k \in {"Content-Type", "Authorization"} |->
                    IF k = "Content-Type"
                    THEN Str("application/x-www-form-urlencoded")
                    ELSE Str("Basic " \o Base64(clientId \o ":" \o clientSecret))],
     body |-> Str(payloadToString(tokenPayload(scopes))),
     timeout |-> FetchTimeoutMs]

generateAccessTokenRequest(a) ==
    tokenRequest(a.url, a.clientId, a.clientSecret, Default(a.scopes, Arr(<<>>)))

generateAccessTokenBegin(p) ==
    /\ call[p].fn = "generateAccessToken"
    /\ fetchIssue(p, generateAccessTokenRequest(call[p].args))
generateAccessTokenFetchRejected(p) ==
    call[p].fn = "generateAccessToken" /\ fetchRejected(p)
generateAccessTokenResponse(p) ==
    call[p].fn = "generateAccessToken" /\ fetchResponse(p)
generateAccessTokenErrorBody(p) ==
    call[p].fn = "generateAccessToken" /\ fetchErrorBody(p)
generateAccessTokenJsonBody(p) ==
    call[p].fn = "generateAccessToken" /\ fetchJsonBody(p, "access_token")

ScopeValues ==
    {Undefined, Arr(<<>>), Arr(<<Str("")>>), Arr(<<Str("read")>>),
     Arr(<<Str("read"), Str("write")>>),
     Arr(<<Str("write:orders"), Str("read:users")>>),
     Arr(<<Str("read:users"), Str("write:orders")>>)}

GenerateAccessTokenArgs ==
    {[url |-> "https://auth.example.com", clientId |-> "client-1",
      clientSecret |-> "secret-1", scopes |-> sc] : sc \in ScopeValues}

(***************************************************************************)
(* generateAccessToken (src/cognito/generate-access-token.ts)              *)
(***************************************************************************)
\* U+2014 EM DASH of the messages, written in ASCII
EmDash == "--"

requiredMessage(name, variable) ==
    name \o " is required " \o EmDash \o " pass it explicitly or set " \o variable

\* params.x ?? process.env.X for the four settings
cognitoResolvedEnvFirst(a, env) ==
    [cognitoDomain |-> Nullish(env.OAUTH_COGNITO_DOMAIN, a.cognitoDomain),
     region |-> Nullish(env.AWS_REGION, a.region),
     clientId |-> Nullish(env.OAUTH_CLIENT_ID, a.clientId),
     clientSecret |-> Nullish(env.OAUTH_CLIENT_SECRET, a.clientSecret),
     scopes |-> Nullish(a.scopes, Arr(<<>>))]
cognitoResolved(a, env) ==
    [cognitoDomain |-> Nullish(a.cognitoDomain, env.OAUTH_COGNITO_DOMAIN),
     region |-> Nullish(a.region, env.AWS_REGION),
     clientId |-> Nullish(a.clientId, env.OAUTH_CLIENT_ID),
     clientSecret |-> Nullish(a.clientSecret, env.OAUTH_CLIENT_SECRET),
     scopes |-> Nullish(a.scopes, Arr(<<>>))]

\* the four if (!x) throw checks, in order; Undefined when all pass
cognitoRequiredErrorLastFirst(r) ==
    IF ~Truthy(r.clientSecret)
    THEN Err(requiredMessage("clientSecret", "OAUTH_CLIENT_SECRET"))
    ELSE IF ~Truthy(r.clientId)
    THEN Err(requiredMessage("clientId", "OAUTH_CLIENT_ID"))
    ELSE IF ~Truthy(r.region)
    THEN Err(requiredMessage("region", "AWS_REGION"))
    ELSE IF ~Truthy(r.cognitoDomain)
    THEN Err(requiredMessage("cognitoDomain", "OAUTH_COGNITO_DOMAIN"))
    ELSE Undefined
cognitoRequiredError(r) ==
    IF ~Truthy(r.cognitoDomain)
    THEN Err(requiredMessage("cognitoDomain", "OAUTH_COGNITO_DOMAIN"))
    ELSE IF ~Truthy(r.region)
    THEN Err(requiredMessage("region", "AWS_REGION"))
    ELSE IF ~Truthy(r.clientId)
    THEN Err(requiredMessage("clientId", "OAUTH_CLIENT_ID"))
    ELSE IF ~Truthy(r.clientSecret)
    THEN Err(requiredMessage("clientSecret", "OAUTH_CLIENT_SECRET"))
    ELSE Undefined

\* const url = `https://${cognitoDomain}.auth.${region}.amazoncognito.com`
cognitoUrl(r) ==
    "https://" \o r.cognitoDomain.v \o ".auth." \o r.region.v
        \o ".amazoncognito.com"

cognitoTokenRequest(r) ==
    tokenRequest(cognitoUrl(r), r.clientId.v, r.clientSecret.v, r.scopes)

\* a required setting is missing: throws before the try block
cognitoAccessTokenInvalid(p) ==
    /\ call[p].fn = "cognito.generateAccessToken"
    /\ pc[p] = "called"
    /\ LET error == cognitoRequiredError(cognitoResolved(call[p].args, call[p].env))
       IN  /\ error # Undefined
           /\ outcome' = [outcome EXCEPT ![p] = Threw(error)]
    /\ pc' = [pc EXCEPT ![p] = "done"]
    /\ UNCHANGED <<call, params, iteration, sent, received, paused>>
    /\ UNCHANGED storeVars

cognitoAccessTokenBegin(p) ==
    /\ call[p].fn = "cognito.generateAccessToken"
    /\ LET r == cognitoResolved(call[p].args, call[p].env)
       IN  /\ cognitoRequiredError(r) = Undefined
           /\ fetchIssue(p, cognitoTokenRequest(r))
cognitoAccessTokenFetchRejected(p) ==
    call[p].fn = "cognito.generateAccessToken" /\ fetchRejected(p)
cognitoAccessTokenResponse(p) ==
    call[p].fn = "cognito.generateAccessToken" /\ fetchResponse(p)
cognitoAccessTokenErrorBody(p) ==
    call[p].fn = "cognito.generateAccessToken" /\ fetchErrorBody(p)
cognitoAccessTokenJsonBody(p) ==
    /\ call[p].fn = "cognito.generateAccessToken"
    /\ fetchJsonBody(p, "access_token")

\* process.env: a variable is unset or holds a string
EnvValues ==
    [OAUTH_COGNITO_DOMAIN : {Undefined, Str("env-app")},
     AWS_REGION : {Undefined, Str("eu-west-1")},
     OAUTH_CLIENT_ID : {Undefined, Str("env-client-id")},
     OAUTH_CLIENT_SECRET : {Undefined, Str("env-client-secret")},
     USER_POOL_CLIENT_ID : {Undefined, Str("env-pool-client")}]

CognitoAccessTokenArgs ==
    [cognitoDomain : {Undefined, Str(""), Str("my-app")},
     region : {Undefined, Str(""), Str("us-east-1")},
     clientId : {Undefined, Str(""), Str("my-client-id")},
     clientSecret : {Undefined, Str(""), Str("my-client-secret")},
     scopes : {Undefined, Arr(<<>>), Arr(<<Str("read:users"), Str("write:orders")>>)}]

(***************************************************************************)
(* generateUserAccessToken (src/cognito/generate-user-access-token.ts)     *)
(***************************************************************************)
userResolved(a, env) ==
    [region |-> Nullish(a.region, env.AWS_REGION),
     clientId |-> Nullish(a.clientId, env.USER_POOL_CLIENT_ID)]

userRequiredError(r) ==
    IF ~Truthy(r.region)
    THEN Err(requiredMessage("region", "AWS_REGION"))
    ELSE IF ~Truthy(r.clientId)
    THEN Err(requiredMessage("clientId", "USER_POOL_CLIENT_ID"))
    ELSE Undefined

\* JSON.stringify({ AuthFlow, ClientId, AuthParameters: { USERNAME, PASSWORD } })
initiateAuthBody(clientId, email, password) ==
    "{\"AuthFlow\":\"USER_PASSWORD_AUTH\",\"ClientId\":\"" \o clientId
        \o "\",\"AuthParameters\":{\"USERNAME\":\"" \o email
        \o "\",\"PASSWORD\":\"" \o password \o "\"}}"

userTokenRequest(r, a) ==
    [url |-> "https://cognito-idp." \o r.region.v \o ".amazonaws.com/",
     method |-> "POST",
     headers |-> [k \in {"Content-Type", "X-Amz-Target"} |->
                    IF k = "Content-Type"
                    THEN Str("application/x-amz-json-1.1")
                    ELSE Str("AWSCognitoIdentityProviderService.InitiateAuth")],
     body |-> Str(initiateAuthBody(r.clientId.v, a.email, a.password)),
     timeout |-> FetchTimeoutMs]

generateUserAccessTokenInvalid(p) ==
    /\ call[p].fn = "generateUserAccessToken"
    /\ pc[p] = "called"
    /\ LET error == userRequiredError(userResolved(call[p].args, call[p].env))
       IN  /\ error # Undefined
           /\ outcome' = [outcome EXCEPT ![p] = Threw(error)]
    /\ pc' = [pc EXCEPT ![p] = "done"]
    /\ UNCHANGED <<call, params, iteration, sent, received, paused>>
    /\ UNCHANGED storeVars

generateUserAccessTokenBegin(p) ==
    /\ call[p].fn = "generateUserAccessToken"
    /\ LET r == userResolved(call[p].args, call[p].env)
       IN  /\ userRequiredError(r) = Undefined
           /\ fetchIssue(p, userTokenRequest(r, call[p].args))
generateUserAccessTokenFetchRejected(p) ==
    call[p].fn = "generateUserAccessToken" /\ fetchRejected(p)
generateUserAccessTokenResponse(p) ==
    call[p].fn = "generateUserAccessToken" /\ fetchResponse(p)
generateUserAccessTokenErrorBody(p) ==
    call[p].fn = "generateUserAccessToken" /\ fetchErrorBody(p)
generateUserAccessTokenJsonBody(p) ==
    /\ call[p].fn = "generateUserAccessToken"
    /\ fetchJsonBody(p, "AccessToken")

UserAccessTokenArgs ==
    [region : {Undefined, Str(""), Str("us-east-1")},
     clientId : {Undefined, Str(""), Str("my-client-id")},
     email : {"user@example.com"},
     password : {"Passw0rd!"}]

(***************************************************************************)
(* One invocation of a one-shot helper.                                    *)
(***************************************************************************)
\* process.env with none of the variables set
EmptyEnv ==
    [OAUTH_COGNITO_DOMAIN |-> Undefined, AWS_REGION |-> Undefined,
     OAUTH_CLIENT_ID |-> Undefined, OAUTH_CLIENT_SECRET |-> Undefined,
     USER_POOL_CLIENT_ID |-> Undefined]

HelperCalls ==
    {[fn |-> "httpCall", args |-> a, env |-> EmptyEnv] : a \in HttpCallArgs}
    \cup {[fn |-> "putItem", args |-> [tableName |-> Str("my-table"), item |-> it],
           env |-> EmptyEnv] : it \in StoreItems}
    \cup {[fn |-> "generateAccessToken", args |-> a, env |-> EmptyEnv] :
            a \in GenerateAccessTokenArgs}
    \cup {[fn |-> "cognito.generateAccessToken", args |-> a, env |-> e] :
            a \in CognitoAccessTokenArgs,
            e \in {v \in EnvValues : v.USER_POOL_CLIENT_ID = Undefined}}
    \cup {[fn |-> "generateUserAccessToken", args |-> a, env |-> e] :
            a \in UserAccessTokenArgs,
            e \in {v \in EnvValues :
                     /\ v.OAUTH_COGNITO_DOMAIN = Undefined
                     /\ v.OAUTH_CLIENT_ID = Undefined
                     /\ v.OAUTH_CLIENT_SECRET = Undefined}}

InitHelpers ==
    /\ call \in [Invocations -> HelperCalls]
    /\ pc = [p \in Invocations |-> "called"]
    /\ params = [p \in Invocations |-> Undefined]
    /\ iteration = [p \in Invocations |-> 0]
    /\ outcome = [p \in Invocations |-> Pending]
    /\ sent = [p \in Invocations |-> <<>>]
    /\ received = [p \in Invocations |-> <<>>]
    /\ paused = [p \in Invocations |-> <<>>]
    /\ table = {}
    /\ reads = [p \in Invocations |-> <<>>]
    /\ writes = <<>>

NextHelpers ==
    \/ \E p \in Procs : httpCallBegin(p)
    \/ \E p \in Procs : httpCallFetchRejected(p)
    \/ \E p \in Procs : httpCallResponse(p)
    \/ \E p \in Procs : httpCallErrorBody(p)
    \/ \E p \in Procs : httpCallJsonBody(p)
    \/ \E p \in Procs : putItemBegin(p)
    \/ \E p \in Procs : storeApplyPut(p)
    \/ \E p \in Procs : putItemResponse(p)
    \/ \E p \in Procs : putItemCatch(p)
    \/ \E p \in Procs : generateAccessTokenBegin(p)
    \/ \E p \in Procs : generateAccessTokenFetchRejected(p)
    \/ \E p \in Procs : generateAccessTokenResponse(p)
    \/ \E p \in Procs : generateAccessTokenErrorBody(p)
    \/ \E p \in Procs : generateAccessTokenJsonBody(p)
    \/ \E p \in Procs : cognitoAccessTokenInvalid(p)
    \/ \E p \in Procs : cognitoAccessTokenBegin(p)
    \/ \E p \in Procs : cognitoAccessTokenFetchRejected(p)
    \/ \E p \in Procs : cognitoAccessTokenResponse(p)
    \/ \E p \in Procs : cognitoAccessTokenErrorBody(p)
    \/ \E p \in Procs : cognitoAccessTokenJsonBody(p)
    \/ \E p \in Procs : generateUserAccessTokenInvalid(p)
    \/ \E p \in Procs : generateUserAccessTokenBegin(p)
    \/ \E p \in Procs : generateUserAccessTokenFetchRejected(p)
    \/ \E p \in Procs : generateUserAccessTokenResponse(p)
    \/ \E p \in Procs : generateUserAccessTokenErrorBody(p)
    \/ \E p \in Procs : generateUserAccessTokenJsonBody(p)

SpecHelpers == InitHelpers /\ [][NextHelpers]_vars

(***************************************************************************)
(* The credentials of the Authorization header, over strings given as      *)
(* UTF-16 code units (src/utils/generate-access-token.ts lines 46-54).     *)
(***************************************************************************)
\* longest client id and longest client secret, in code units
MaxCredentialLen == 2

\* code units the ids and secrets are made of: 'A', ':', U+00E9, U+20AC,
\* and the surrogate pair D83D DE00 of U+1F600
CredentialUnits == {65, 58, 233, 8364, 55357, 56832}

CredentialStrings ==
    UNION {[1 .. n -> CredentialUnits] : n \in 0 .. MaxCredentialLen}

\* Buffer.from(`${clientId}:${clientSecret}`).toString('base64')
basicCredentials(clientId, clientSecret) ==
    base64Encode(utf8Encode(clientId \o <<58>> \o clientSecret))

\* const credentials = ...; Authorization: `Basic ${credentials}`
credentialsEncode(p) ==
    /\ call[p].fn = "credentials"
    /\ pc[p] = "called"
    /\ params' = [params EXCEPT ![p] =
         [scheme |-> "Basic ",
          credentials |-> basicCredentials(call[p].args.clientId,
                                           call[p].args.clientSecret)]]
    /\ pc' = [pc EXCEPT ![p] = "encoded"]
    /\ UNCHANGED <<call, iteration, outcome, sent, received, paused>>
    /\ UNCHANGED storeVars

InitCredentials ==
    /\ call \in [Invocations ->
         {[fn |-> "credentials", args |-> [clientId |-> i, clientSecret |-> x]] :
            i \in CredentialStrings, x \in CredentialStrings}]
    /\ pc = [p \in Invocations |-> "called"]
    /\ params = [p \in Invocations |-> Undefined]
    /\ iteration = [p \in Invocations |-> 0]
    /\ outcome = [p \in Invocations |-> Pending]
    /\ sent = [p \in Invocations |-> <<>>]
    /\ received = [p \in Invocations |-> <<>>]
    /\ paused = [p \in Invocations |-> <<>>]
    /\ table = {}
    /\ reads = [p \in Invocations |-> <<>>]
    /\ writes = <<>>

NextCredentials == \E p \in Procs : credentialsEncode(p)

SpecCredentials == InitCredentials /\ [][NextCredentials]_vars

(***************************************************************************)
(* generateRandomId (src/utils/generate-random-id.ts). A string is the     *)
(* sequence of its characters.                                             *)
(***************************************************************************)
\* largest length a caller passes
MaxLengthArg == 38

\* generateRandomId(length = 36); if (length > 36)
UuidLength == 36

\* randomUUID(): version-4 UUIDs, 36 characters each
Uuids ==
    {<<"0", "0", "0", "0", "0", "0", "0", "0", "-", "0", "0", "0",
       "0", "-", "4", "0", "0", "0", "-", "8", "0", "0", "0", "-",
       "0", "0", "0", "0", "0", "0", "0", "0", "0", "0", "0", "0">>,
     <<"a", "1", "b", "2", "c", "3", "d", "4", "-", "e", "5", "f",
       "6", "-", "4", "a", "7", "b", "-", "8", "c", "9", "d", "-",
       "0", "e", "1", "f", "2", "a", "3", "b", "4", "c", "5", "d">>,
     <<"f", "f", "f", "f", "f", "f", "f", "f", "-", "f", "f", "f",
       "f", "-", "4", "f", "f", "f", "-", "b", "f", "f", "f", "-",
       "f", "f", "f", "f", "f", "f", "f", "f", "f", "f", "f", "f">>}

\* str.substring(0, end): a negative end counts as 0, an end past the
\* string as its length
substringClampOne(str, end) ==
    SubSeq(str, 1, IF end < 1 THEN 1 ELSE IF end > Len(str) THEN Len(str) ELSE end)
substring(str, end) ==
    SubSeq(str, 1, IF end < 0 THEN 0 ELSE IF end > Len(str) THEN Len(str) ELSE end)

LengthValues == {Undefined} \cup {Num(n) : n \in (0 - 2) .. MaxLengthArg}

\* the whole function: the guard, then a fresh UUID cut to length
generateRandomId(p) ==
    /\ call[p].fn = "generateRandomId"
    /\ pc[p] = "called"
    /\ LET length == Default(call[p].args.length, Num(UuidLength)).v
       IN  IF length > UuidLength
           THEN /\ outcome' = [outcome EXCEPT ![p] =
                                 Threw(Err("max uuid v4 length is 36"))]
                /\ UNCHANGED params
           ELSE \E uuid \in Uuids :
                  /\ params' = [params EXCEPT ![p] = uuid]
                  /\ outcome' = [outcome EXCEPT ![p] =
                                   Returned(substring(uuid, length))]
    /\ pc' = [pc EXCEPT ![p] = "done"]
    /\ UNCHANGED <<call, iteration, sent, received, paused>>
    /\ UNCHANGED storeVars

InitRandomId ==
    /\ call \in [Invocations ->
         {[fn |-> "generateRandomId", args |-> [length |-> n]] : n \in LengthValues}]
    /\ pc = [p \in Invocations |-> "called"]
    /\ params = [p \in Invocations |-> Undefined]
    /\ iteration = [p \in Invocations |-> 0]
    /\ outcome = [p \in Invocations |-> Pending]
    /\ sent = [p \in Invocations |-> <<>>]
    /\ received = [p \in Invocations |-> <<>>]
    /\ paused = [p \in Invocations |-> <<>>]
    /\ table = {}
    /\ reads = [p \in Invocations |-> <<>>]
    /\ writes = <<>>

NextRandomId == \E p \in Procs : generateRandomId(p)

SpecRandomId == InitRandomId /\ [][NextRandomId]_vars

(***************************************************************************)
(* Vocabulary of the properties, stated on the store's responses and the   *)
(* recorded calls.                                                         *)
(***************************************************************************)
Fn(p) == call[p].fn
Args(p) == call[p].args
\* the attempt budget N of the invocation
Budget(p) == IF Args(p).maxIterations = Undefined
             THEN 10 ELSE Args(p).maxIterations.v
Calls_(p) == Len(sent[p])
Pauses(p) == Len(paused[p])
Attempts(p) == 1 .. Len(received[p])

\* the terminal not-found error of each poller
TerminalError(p) ==
    IF Fn(p) = "getItem"
    THEN Err("record not found")
    ELSE Err("query returned no results after max retries")

\* the success predicate of the specification on a response
ItemPresent(r) == r.Item # Undefined
PageItems(d) == IF d.Items = Undefined THEN <<>> ELSE d.Items.v
PageSucceeds(d) == Len(PageItems(d)) > 0 \/ d.LastEvaluatedKey # Undefined
Satisfies(p, r) == IF Fn(p) = "getItem" THEN ItemPresent(r) ELSE PageSucceeds(r)

\* attempt k resolved with a response that meets / misses the predicate
AttemptSucceeded(p, k) ==
    received[p][k].settled = "resolved" /\ Satisfies(p, received[p][k].value)
AttemptMissed(p, k) ==
    received[p][k].settled = "resolved" /\ ~Satisfies(p, received[p][k].value)
AttemptThrew(p, k) == received[p][k].settled = "rejected"

\* the result a poller is to return for a successful response
ResultOf(p, r) ==
    IF Fn(p) = "getItem"
    THEN r.Item
    ELSE [items |-> Arr(PageItems(r)), lastEvaluatedKey |-> r.LastEvaluatedKey]

(***************************************************************************)
(* C1. For getItem and query and every attempt budget N: an invocation     *)
(* that has finished without any response meeting the success predicate    *)
(* and without any store call throwing has made exactly N store calls and  *)
(* exactly N pauses and has failed with its terminal not-found error; and  *)
(* no invocation ever makes more than N store calls or pauses. (N counts   *)
(* attempts: N >= 0.)                                                      *)
(***************************************************************************)
C1_ExhaustionAfterNCalls ==
    \A p \in Procs :
        Budget(p) >= 0 =>
            /\ Calls_(p) <= Budget(p)
            /\ Pauses(p) <= Budget(p)
            /\ (pc[p] = "done" /\ \A k \in Attempts(p) : AttemptMissed(p, k)) =>
                    /\ Calls_(p) = Budget(p)
                    /\ Pauses(p) = Budget(p)
                    /\ outcome[p] = Threw(TerminalError(p))

C1_Witness ==
    \E p \in Procs :
        /\ pc[p] = "done"
        /\ Budget(p) >= 2
        /\ Len(received[p]) = Budget(p)
        /\ \A k \in Attempts(p) : AttemptMissed(p, k)
        /\ Calls_(p) = Budget(p) /\ Pauses(p) = Budget(p)
        /\ outcome[p] = Threw(TerminalError(p))

(***************************************************************************)
(* C2. For getItem and query: when attempt K meets the success predicate   *)
(* (attempts 1..K-1 having missed it), K <= N, the invocation is finished  *)
(* with exactly K store calls and K-1 pauses and has returned the result   *)
(* of attempt K; there is no attempt K+1 and no pause after attempt K.     *)
(***************************************************************************)
C2_SuccessOnAttemptK ==
    \A p \in Procs : \A k \in Attempts(p) :
        AttemptSucceeded(p, k) =>
            /\ \A j \in 1 .. (k - 1) : AttemptMissed(p, j)
            /\ k <= Budget(p)
            /\ k = Len(received[p])
            /\ Calls_(p) = k
            /\ Pauses(p) = k - 1
            /\ pc[p] = "done"
            /\ outcome[p] = Returned(ResultOf(p, received[p][k].value))

C2_Witness ==
    \E p \in Procs :
        /\ Len(received[p]) >= 2
        /\ AttemptSucceeded(p, Len(received[p]))
        /\ Calls_(p) = Len(received[p])
        /\ Pauses(p) = Len(received[p]) - 1
        /\ outcome[p].status = "returned"

(***************************************************************************)
(* C3. For getItem and query: when the store call of attempt K throws, the *)
(* invocation is finished and has failed with that same error, which is    *)
(* not the terminal not-found error; it has made K store calls and K-1     *)
(* pauses: no call and no pause follows the failing attempt.               *)
(***************************************************************************)
C3_StoreErrorPassedThrough ==
    \A p \in Procs : \A k \in Attempts(p) :
        AttemptThrew(p, k) =>
            /\ k = Len(received[p])
            /\ Calls_(p) = k
            /\ Pauses(p) = k - 1
            /\ pc[p] = "done"
            /\ outcome[p] = Threw(received[p][k].value)
            /\ outcome[p].value # TerminalError(p)

C3_Witness ==
    \E p \in Procs :
        /\ Len(received[p]) >= 2
        /\ AttemptThrew(p, Len(received[p]))
        /\ Len(received[p]) < Budget(p)
        /\ pc[p] = "done"
        /\ outcome[p] = Threw(received[p][Len(received[p])].value)

(***************************************************************************)
(* C4. query: when attempt 1 answers with no items (an empty or missing    *)
(* list) but with a LastEvaluatedKey, query has returned items = [] and    *)
(* that key after exactly one store call and no pause.                     *)
(***************************************************************************)
C4_EmptyPageWithTokenSucceeds ==
    \A p \in Procs :
        (/\ Fn(p) = "query"
         /\ Len(received[p]) >= 1
         /\ received[p][1].settled = "resolved"
         /\ PageItems(received[p][1].value) = <<>>
         /\ received[p][1].value.LastEvaluatedKey # Undefined) =>
            /\ pc[p] = "done"
            /\ outcome[p] =
                 Returned([items |-> Arr(<<>>),
                           lastEvaluatedKey |->
                               received[p][1].value.LastEvaluatedKey])
            /\ Calls_(p) = 1
            /\ Pauses(p) = 0

C4_Witness ==
    \E p \in Procs :
        /\ Fn(p) = "query"
        /\ Budget(p) >= 2
        /\ Len(received[p]) = 1
        /\ received[p][1] =
             Resolved([Items |-> Arr(<<>>),
                       LastEvaluatedKey |-> Obj([pk |-> "tok1"])])
        /\ outcome[p].status = "returned"

(***************************************************************************)
(* C5. query: every returned value has items.length > 0 or a continuation  *)
(* token; a response with an empty or missing item list and no             *)
(* LastEvaluatedKey is a failed attempt: it is followed by a pause, and    *)
(* then by another store call unless the budget is used up, in which case  *)
(* the invocation fails with the terminal error.                           *)
(***************************************************************************)
C5_NeverReturnsEmptyPage ==
    \A p \in Procs :
        Fn(p) = "query" =>
            /\ outcome[p].status = "returned" =>
                  \/ Len(outcome[p].value.items.v) > 0
                  \/ outcome[p].value.lastEvaluatedKey # Undefined
            /\ \A k \in Attempts(p) :
                  (/\ received[p][k].settled = "resolved"
                   /\ PageItems(received[p][k].value) = <<>>
                   /\ received[p][k].value.LastEvaluatedKey = Undefined) =>
                      /\ Pauses(p) >= k
                      /\ outcome[p].status # "returned" \/ Calls_(p) > k
                      /\ Calls_(p) = k =>
                            \/ pc[p] \in {"delay", "loop"}
                            \/ /\ pc[p] = "done"
                               /\ k >= Budget(p)
                               /\ outcome[p] = Threw(TerminalError(p))

C5_Witness ==
    \E p \in Procs :
        /\ Fn(p) = "query"
        /\ Len(received[p]) = 3
        /\ received[p][1] =
             Resolved([Items |-> Arr(<<>>), LastEvaluatedKey |-> Undefined])
        /\ received[p][2] =
             Resolved([Items |-> Undefined, LastEvaluatedKey |-> Undefined])
        /\ Calls_(p) = 3 /\ Pauses(p) = 2
        /\ outcome[p].status = "returned"

(***************************************************************************)
(* C6. getItem: an attempt succeeds exactly when the response carries an   *)
(* item, whatever its attributes (an item without attributes or with empty *)
(* attribute values counts); the value returned is the item of the last    *)
(* response, unmodified; a response without an item is never returned.     *)
(***************************************************************************)
C6_PresenceIsSuccess ==
    \A p \in Procs :
        Fn(p) = "getItem" =>
            /\ \A k \in Attempts(p) :
                  received[p][k].settled = "resolved" =>
                      (received[p][k].value.Item # Undefined
                          <=> /\ k = Len(received[p])
                              /\ pc[p] = "done"
                              /\ outcome[p].status = "returned")
            /\ outcome[p].status = "returned" =>
                  /\ Len(received[p]) >= 1
                  /\ received[p][Len(received[p])].settled = "resolved"
                  /\ outcome[p].value = received[p][Len(received[p])].value.Item
                  /\ outcome[p].value # Undefined

C6_Witness ==
    \E p \in Procs :
        /\ Fn(p) = "getItem"
        /\ Len(received[p]) = 2
        /\ received[p][1] = Resolved([Item |-> Undefined])
        /\ received[p][2] = Resolved([Item |-> Obj(EmptyProps)])
        /\ outcome[p] = Returned(Obj(EmptyProps))

(***************************************************************************)
(* C7. getItem: the Key of every request sent holds pk as the caller gave  *)
(* it, and holds sk if and only if the caller gave a non-empty sort id,    *)
(* then with that value; with the sort id absent or empty the Key holds pk *)
(* only.                                                                   *)
(***************************************************************************)
C7_SortKeyOnlyWhenSupplied ==
    \A p \in Procs :
        Fn(p) = "getItem" =>
            \A i \in 1 .. Len(sent[p]) :
                LET key == sent[p][i].Key
                    sk == Args(p).keys.sk
                    supplied == sk # Undefined /\ sk # Str("")
                IN  /\ "pk" \in DOMAIN key
                    /\ key["pk"] = Args(p).keys.pk
                    /\ "sk" \in DOMAIN key <=> supplied
                    /\ supplied => key["sk"] = sk
                    /\ ~supplied => DOMAIN key = {"pk"}
                    /\ sent[p][i].TableName = Args(p).tableName

C7_Witness ==
    \E p \in Procs :
        /\ Fn(p) = "getItem"
        /\ Args(p).keys.sk = Str("")
        /\ Len(sent[p]) = 2
        /\ sent[p][2].Key = [pk |-> Str("USER#1")]

(***************************************************************************)
(* C8. query with a filter expression and a filter value map: in the value *)
(* map of every request sent, a name both maps define has the filter's     *)
(* value, a name only one map defines keeps its value, and there are no    *)
(* other names.                                                            *)
(***************************************************************************)
HasFilterExpression(p) ==
    Args(p).filterExpression # Undefined /\ Args(p).filterExpression # Str("")

C8_FilterValuesOverride ==
    \A p \in Procs :
        (/\ Fn(p) = "query"
         /\ HasFilterExpression(p)
         /\ Args(p).filterAttributeValues # Undefined) =>
            \A i \in 1 .. Len(sent[p]) :
                LET m == sent[p][i].ExpressionAttributeValues.v
                    kv == Args(p).expressionAttributeValues.v
                    fv == Args(p).filterAttributeValues.v
                IN  /\ DOMAIN m = DOMAIN kv \cup DOMAIN fv
                    /\ \A n \in DOMAIN fv : m[n] = fv[n]
                    /\ \A n \in DOMAIN kv \ DOMAIN fv : m[n] = kv[n]

C8_Witness ==
    \E p \in Procs :
        /\ Fn(p) = "query"
        /\ HasFilterExpression(p)
        /\ Args(p).expressionAttributeValues =
             Obj((":pk" :> "A") @@ (":prefix" :> "ORDER#"))
        /\ Args(p).filterAttributeValues =
             Obj((":pk" :> "B") @@ (":date" :> "2024-01-01"))
        /\ Len(sent[p]) >= 1
        /\ sent[p][1].ExpressionAttributeValues.v[":pk"] = "B"
        /\ sent[p][1].ExpressionAttributeValues.v[":prefix"] = "ORDER#"

(***************************************************************************)
(* C9 as stated. query: whenever the caller supplies filterAttributeValues *)
(* the value map sent is the key-condition map with the filter map merged  *)
(* on top, also when no filter expression comes with it.                   *)
(***************************************************************************)
C9_AsStated ==
    \A p \in Procs :
        (Fn(p) = "query" /\ Args(p).filterAttributeValues # Undefined) =>
            \A i \in 1 .. Len(sent[p]) :
                LET m == sent[p][i].ExpressionAttributeValues.v
                    kv == Args(p).expressionAttributeValues.v
                    fv == Args(p).filterAttributeValues.v
                IN  /\ DOMAIN m = DOMAIN kv \cup DOMAIN fv
                    /\ \A n \in DOMAIN fv : m[n] = fv[n]

(***************************************************************************)
(* C9, amended. query merges filterAttributeValues on top of the           *)
(* key-condition value map only when a non-empty filterExpression is       *)
(* supplied with it; when the filter expression is absent or empty the     *)
(* filter value map is ignored: the request carries the key-condition      *)
(* value map unchanged and no FilterExpression.                            *)
(***************************************************************************)
C9_MergedOnlyWithFilterExpression ==
    \A p \in Procs :
        (Fn(p) = "query" /\ Args(p).filterAttributeValues # Undefined) =>
            \A i \in 1 .. Len(sent[p]) :
                LET m == sent[p][i].ExpressionAttributeValues.v
                    kv == Args(p).expressionAttributeValues.v
                    fv == Args(p).filterAttributeValues.v
                IN  IF HasFilterExpression(p)
                    THEN /\ DOMAIN m = DOMAIN kv \cup DOMAIN fv
                         /\ \A n \in DOMAIN fv : m[n] = fv[n]
                         /\ \A n \in DOMAIN kv \ DOMAIN fv : m[n] = kv[n]
                         /\ sent[p][i].FilterExpression = Args(p).filterExpression
                    ELSE /\ m = kv
                         /\ "FilterExpression" \notin DOMAIN sent[p][i]

C9_Witness ==
    \E p \in Procs :
        /\ Fn(p) = "query"
        /\ ~HasFilterExpression(p)
        /\ Args(p).filterAttributeValues = Obj(":pk" :> "B")
        /\ Len(sent[p]) >= 1
        /\ sent[p][1].ExpressionAttributeValues = Obj(":pk" :> "A")

(***************************************************************************)
(* C10 as stated. getItem called with an absent or empty partition key     *)
(* fails with a validation error before any store call and any pause.      *)
(***************************************************************************)
MalformedKey(p) ==
    Args(p).keys.pk = Undefined \/ Args(p).keys.pk = Str("")

C10_AsStated ==
    \A p \in Procs :
        (Fn(p) = "getItem" /\ MalformedKey(p)) =>
            /\ Calls_(p) = 0
            /\ Pauses(p) = 0
            /\ pc[p] = "done" =>
                  /\ outcome[p].status = "threw"
                  /\ outcome[p].value # TerminalError(p)

(***************************************************************************)
(* C10, amended. getItem does not validate its key. Called with an absent  *)
(* or empty partition key it runs the same loop as for any key: with a     *)
(* budget of at least 1 the request goes to the store with pk as given;    *)
(* the invocation fails only with an error thrown by the store call        *)
(* (passed through at once, no pause, no retry) or with 'record not found' *)
(* once the budget is used up, and while the store answers without an item *)
(* the lookup is repeated.                                                 *)
(***************************************************************************)
C10_MalformedKeyReachesStore ==
    \A p \in Procs :
        (Fn(p) = "getItem" /\ MalformedKey(p)) =>
            /\ \A i \in 1 .. Len(sent[p]) :
                  sent[p][i].Key["pk"] = Args(p).keys.pk
            /\ (pc[p] \in {"send", "delay", "done"} /\ Budget(p) >= 1) =>
                  Calls_(p) >= 1
            /\ outcome[p].status = "threw" =>
                  \/ /\ Len(received[p]) >= 1
                     /\ received[p][Len(received[p])] = Rejected(outcome[p].value)
                     /\ Pauses(p) = Calls_(p) - 1
                  \/ /\ outcome[p].value = Err("record not found")
                     /\ \A k \in Attempts(p) : AttemptMissed(p, k)
                     /\ Budget(p) >= 0 => Calls_(p) = Budget(p)
            /\ \A k \in Attempts(p) :
                  (AttemptMissed(p, k) /\ k < Budget(p) /\ pc[p] = "done") =>
                      Calls_(p) > k

C10_Witness ==
    \E p \in Procs :
        /\ Fn(p) = "getItem"
        /\ Args(p).keys.pk = Str("")
        /\ Calls_(p) = 2
        /\ sent[p][2].Key["pk"] = Str("")
        /\ AttemptMissed(p, 1)
        /\ Len(received[p]) = 2 /\ AttemptThrew(p, 2)
        /\ outcome[p] = Threw(Err("ValidationException"))

(***************************************************************************)
(* C11 as stated. For every maxAttempts the caller passes, the terminal    *)
(* not-found error of getItem and query is raised only after at least one  *)
(* failed store call: no invocation fails with it having made no store     *)
(* call (the retry policy keeps attempts >= 1).                            *)
(***************************************************************************)
C11_NotFoundOnlyAfterAStoreCall ==
    \A p \in Procs :
        outcome[p] = Threw(TerminalError(p)) =>
            /\ Budget(p) >= 1
            /\ Calls_(p) >= 1
            /\ \E k \in Attempts(p) : AttemptMissed(p, k)

(***************************************************************************)
(* C12. Every pause of an invocation lasts the configured pauseSeconds     *)
(* (2 when the caller gives none), whatever the attempt number; the total  *)
(* suspended time of P pauses is P x pauseSeconds and, for a budget        *)
(* N >= 0, at most N x pauseSeconds.                                       *)
(***************************************************************************)
PauseSeconds(p) ==
    IF Args(p).delayInSeconds = Undefined THEN 2 ELSE Args(p).delayInSeconds.v

RECURSIVE SumMs(_)
SumMs(s) == IF s = <<>> THEN 0 ELSE timeoutMs(Head(s)) + SumMs(Tail(s))

C12_ConstantPause ==
    \A p \in Procs :
        /\ \A i \in 1 .. Pauses(p) : paused[p][i] = PauseSeconds(p)
        /\ SumMs(paused[p]) = Pauses(p) * PauseSeconds(p) * 1000
        /\ Budget(p) >= 0 =>
              SumMs(paused[p]) <= Budget(p) * PauseSeconds(p) * 1000

C12_Witness ==
    \E p \in Procs :
        /\ Pauses(p) = 3
        /\ PauseSeconds(p) = 3
        /\ paused[p] = <<3, 3, 3>>
        /\ SumMs(paused[p]) = 9000

(***************************************************************************)
(* C13. Attempts of one invocation run one after the other, from iteration *)
(* 1: at most one store call is in flight; a store call is issued only     *)
(* when every earlier call has been answered and evaluated and every       *)
(* earlier pause has completed; the counter is 1 plus the number of failed *)
(* attempts whose pause has completed, and each completed pause raises it  *)
(* by exactly 1.                                                           *)
(***************************************************************************)
InFlight(p) == Calls_(p) - Len(received[p])

C13_Positions ==
    \A p \in Procs :
        /\ InFlight(p) \in {0, 1}
        /\ InFlight(p) = 1 <=> pc[p] = "send"
        /\ pc[p] = "send" =>
              /\ iteration[p] = Calls_(p)
              /\ Pauses(p) = Calls_(p) - 1
        /\ pc[p] = "delay" =>
              /\ iteration[p] = Calls_(p)
              /\ Pauses(p) = Calls_(p)
              /\ AttemptMissed(p, Calls_(p))
        /\ pc[p] = "loop" =>
              /\ iteration[p] = Calls_(p) + 1
              /\ Pauses(p) = Calls_(p)
        /\ pc[p] = "called" => Calls_(p) = 0

C13_Steps ==
    \A p \in Procs :
        /\ Len(sent'[p]) > Len(sent[p]) =>
              /\ Len(sent'[p]) = Len(sent[p]) + 1
              /\ pc[p] = "loop"
              /\ Len(received[p]) = Len(sent[p])
              /\ Len(paused[p]) = Len(sent[p])
              /\ iteration[p] = Len(sent[p]) + 1
              /\ \A k \in 1 .. Len(received[p]) : AttemptMissed(p, k)
        /\ (pc[p] # "called" /\ iteration'[p] # iteration[p]) =>
              /\ iteration'[p] = iteration[p] + 1
              /\ pc[p] = "delay" /\ pc'[p] = "loop"

C13_Sequential == [](C13_Positions) /\ [][C13_Steps]_vars

C13_Witness ==
    \E p \in Procs :
        /\ pc[p] = "send"
        /\ iteration[p] = 3
        /\ Calls_(p) = 3 /\ Len(received[p]) = 2 /\ Pauses(p) = 2

(***************************************************************************)
(* C15. The terminal not-found error after N >= 1 failed attempts is       *)
(* raised only once the pause after the N-th attempt has completed: every  *)
(* failed attempt, the last one included, is followed by a pause, and the  *)
(* step that raises the error issues no store call.                        *)
(***************************************************************************)
C15_State ==
    \A p \in Procs :
        /\ \A k \in Attempts(p) : AttemptMissed(p, k) => Pauses(p) >= k
        /\ (outcome[p] = Threw(TerminalError(p)) /\ Budget(p) >= 1) =>
              /\ Calls_(p) = Budget(p)
              /\ Len(received[p]) = Budget(p)
              /\ Pauses(p) = Budget(p)
              /\ iteration[p] = Budget(p) + 1

C15_Step ==
    \A p \in Procs :
        (outcome[p] = Pending /\ outcome'[p] = Threw(TerminalError(p))) =>
            /\ pc[p] = "loop"
            /\ sent'[p] = sent[p]
            /\ paused'[p] = paused[p]
            /\ Budget(p) >= 1 => Len(paused[p]) = Budget(p)

C15_PauseBeforeTerminalError == [](C15_State) /\ [][C15_Step]_vars

C15_Witness ==
    \E p \in Procs :
        /\ Budget(p) = 2
        /\ outcome[p] = Threw(TerminalError(p))
        /\ Calls_(p) = 2 /\ Pauses(p) = 2

(***************************************************************************)
(* C16. Without a retry policy getItem and query use maxAttempts = 10 and  *)
(* pauseSeconds = 2: against a store that never succeeds they make exactly *)
(* 10 store calls, each followed by a pause of 2 seconds; a maxIterations  *)
(* or delayInSeconds the caller supplies replaces its own default only.    *)
(***************************************************************************)
Exhausted(p) ==
    pc[p] = "done" /\ \A k \in Attempts(p) : AttemptMissed(p, k)

C16_Defaults ==
    \A p \in Procs :
        LET n == Args(p).maxIterations
            d == Args(p).delayInSeconds
        IN  /\ (n = Undefined /\ Exhausted(p)) =>
                  Calls_(p) = 10 /\ Pauses(p) = 10
            /\ (n # Undefined /\ n.v >= 0 /\ Exhausted(p)) =>
                  Calls_(p) = n.v /\ Pauses(p) = n.v
            /\ d = Undefined => \A i \in 1 .. Pauses(p) : paused[p][i] = 2
            /\ d # Undefined => \A i \in 1 .. Pauses(p) : paused[p][i] = d.v

C16_Witness ==
    \E p \in Procs :
        /\ Args(p).maxIterations = Undefined
        /\ Args(p).delayInSeconds = Undefined
        /\ Exhausted(p)
        /\ Calls_(p) = 10
        /\ paused[p] = <<2, 2, 2, 2, 2, 2, 2, 2, 2, 2>>

(***************************************************************************)
(* C17 as stated. query hands index selection, row cap, consistency flag   *)
(* and continuation token to the store request unmodified (absent stays    *)
(* absent) and asks for ascending order unless the caller asks for         *)
(* descending.                                                             *)
(***************************************************************************)
C17_AsStated ==
    \A p \in Procs :
        Fn(p) = "query" =>
            \A i \in 1 .. Len(sent[p]) :
                /\ sent[p][i].IndexName = Args(p).indexName
                /\ sent[p][i].Limit = Args(p).limit
                /\ sent[p][i].ConsistentRead = Args(p).consistentRead
                /\ sent[p][i].ExclusiveStartKey = Args(p).lastEvaluatedKey
                /\ sent[p][i].ScanIndexForward =
                     Bool(Args(p).scanIndexForward # Bool(FALSE))

(***************************************************************************)
(* C17, amended. query hands index selection, row cap and continuation     *)
(* token to the store request unmodified (absent stays absent); the        *)
(* consistency flag is handed through when the caller gives one and is     *)
(* sent as false when the caller gives none; ScanIndexForward is true      *)
(* unless the caller passes false.                                         *)
(***************************************************************************)
C17_OptionsHandedThrough ==
    \A p \in Procs :
        Fn(p) = "query" =>
            \A i \in 1 .. Len(sent[p]) :
                /\ sent[p][i].IndexName = Args(p).indexName
                /\ sent[p][i].Limit = Args(p).limit
                /\ sent[p][i].ConsistentRead =
                     (IF Args(p).consistentRead = Undefined
                      THEN Bool(FALSE) ELSE Args(p).consistentRead)
                /\ sent[p][i].ExclusiveStartKey = Args(p).lastEvaluatedKey
                /\ sent[p][i].ScanIndexForward =
                     Bool(Args(p).scanIndexForward # Bool(FALSE))

C17_Witness ==
    \E p \in Procs :
        /\ Fn(p) = "query"
        /\ Args(p).consistentRead = Undefined
        /\ Args(p).scanIndexForward = Bool(FALSE)
        /\ Args(p).indexName = Str("status-index")
        /\ Args(p).limit = Undefined
        /\ Len(sent[p]) = 2
        /\ sent[p][2].ConsistentRead = Bool(FALSE)
        /\ sent[p][2].ScanIndexForward = Bool(FALSE)
        /\ sent[p][2].Limit = Undefined

(***************************************************************************)
(* C14. Invocations in progress at once are independent: a step changes    *)
(* the counter, request, logs and outcome of one invocation only; the      *)
(* store calls, pauses and outcome of an invocation are determined by its  *)
(* own responses and budget; and an invocation that is not finished can    *)
(* always take its next step, whatever the others are doing (one that is   *)
(* pausing holds nothing the others need).                                 *)
(***************************************************************************)
Frame(p) ==
    <<call[p], pc[p], params[p], iteration[p], outcome[p], sent[p],
      received[p], paused[p]>>

\* the step invocation p takes next
StepOf(p) ==
    \/ getItemBegin(p) \/ getItemSend(p) \/ getItemNotFound(p)
    \/ getItemResponse(p) \/ getItemCatch(p) \/ getItemDelayed(p)
    \/ queryBegin(p) \/ querySend(p) \/ queryNoResults(p)
    \/ queryResponse(p) \/ queryCatch(p) \/ queryDelayed(p)

\* what a finished invocation has done, from its own responses and budget
OwnOutcome(p) ==
    LET n == Len(received[p])
    IN  IF n >= 1 /\ AttemptSucceeded(p, n)
        THEN /\ outcome[p] = Returned(ResultOf(p, received[p][n].value))
             /\ Calls_(p) = n /\ Pauses(p) = n - 1
        ELSE IF n >= 1 /\ AttemptThrew(p, n)
        THEN /\ outcome[p] = Threw(received[p][n].value)
             /\ Calls_(p) = n /\ Pauses(p) = n - 1
        ELSE /\ outcome[p] = Threw(TerminalError(p))
             /\ Calls_(p) = Budget(p) /\ Pauses(p) = Budget(p)
             /\ n = Budget(p)

C14_State ==
    \A p \in Procs :
        /\ pc[p] = "done" => OwnOutcome(p)
        /\ pc[p] # "done" => outcome[p] = Pending /\ ENABLED StepOf(p)
        /\ pc[p] # "called" =>
              /\ iteration[p] = Pauses(p) + (IF pc[p] = "delay" THEN 0 ELSE 1)
              /\ \A i \in 1 .. Len(sent[p]) : sent[p][i] = params[p]

C14_Step ==
    \A p, q \in Procs :
        (p # q /\ Frame(p)' # Frame(p)) => Frame(q)' = Frame(q)

C14_Independent == [](C14_State) /\ [][C14_Step]_vars

C14_Witness ==
    \E p, q \in Procs :
        /\ p # q
        /\ Fn(p) = "getItem" /\ Fn(q) = "query"
        /\ pc[p] = "delay" /\ Calls_(p) = 1
        /\ pc[q] = "done" /\ Calls_(q) = 2 /\ Pauses(q) = 1
        /\ outcome[q].status = "returned"

(***************************************************************************)
(* C18. A getItem polling while a putItem writes, on a store whose reads   *)
(* reflect completed writes: if the record of the polled key is written    *)
(* before getItem issues its final (maxAttempts-th) store call, getItem    *)
(* returns that record, not 'record not found' (no store call throwing); a *)
(* record written only after the final store call has been answered, even  *)
(* during the final pause, is not observed; and every invocation finishes. *)
(***************************************************************************)
\* the writes to the table and key that getItem invocation p polls
WritesFor(p) ==
    {i \in 1 .. Len(writes) :
        /\ writes[i].TableName = Args(p).tableName
        /\ writes[i].Key = [pk |-> Args(p).keys.pk]}

NoAttemptThrew(p) == \A k \in Attempts(p) : ~AttemptThrew(p, k)

C18_State ==
    \A p \in Procs :
        (Fn(p) = "getItem" /\ pc[p] = "done") =>
            /\ ((\E i \in WritesFor(p) : writes[i].at[p].sent < Budget(p))
                  /\ NoAttemptThrew(p)) =>
                  /\ outcome[p].status = "returned"
                  /\ \E i \in WritesFor(p) : outcome[p].value = Obj(writes[i].Item)
            /\ (\A i \in WritesFor(p) : writes[i].at[p].received >= Budget(p)) =>
                  /\ outcome[p].status = "threw"
                  /\ NoAttemptThrew(p) => outcome[p] = Threw(Err("record not found"))
            /\ outcome[p] = Threw(Err("record not found")) =>
                  \A i \in WritesFor(p) : writes[i].at[p].reads >= Budget(p)

C18_WrittenRecordIsFound ==
    [](C18_State) /\ <>(\A p \in Procs : pc[p] = "done")

C18_Witness ==
    \E p \in Procs :
        /\ Fn(p) = "getItem" /\ pc[p] = "done"
        /\ Budget(p) >= 2
        /\ \E i \in WritesFor(p) :
              /\ writes[i].at[p].sent = Budget(p) - 1
              /\ writes[i].at[p].received = Budget(p) - 1
              /\ outcome[p] = Returned(Obj(writes[i].Item))
        /\ Calls_(p) = Budget(p)

(***************************************************************************)
(* C19. The one-shot helpers (httpCall, putItem, both generateAccessToken  *)
(* and generateUserAccessToken) perform no retry: an invocation issues at  *)
(* most one outbound request, never pauses, and once that request has      *)
(* succeeded or failed the helper returns or throws without a second one.  *)
(***************************************************************************)
OneShotHelpers ==
    {"httpCall", "putItem", "generateAccessToken",
     "cognito.generateAccessToken", "generateUserAccessToken"}

\* the outbound request of p has been answered or has failed
RequestSettled(p) == Calls_(p) = 1 /\ Len(received[p]) >= 1

C19_State ==
    \A p \in Procs :
        Fn(p) \in OneShotHelpers =>
            /\ Calls_(p) <= 1
            /\ Pauses(p) = 0
            /\ iteration[p] = 0
            /\ pc[p] = "done" => outcome[p].status \in {"returned", "threw"}

C19_Step ==
    \A p \in Procs :
        (Fn(p) \in OneShotHelpers /\ RequestSettled(p)) =>
            /\ sent'[p] = sent[p]
            /\ (received'[p] # received[p] /\ received[p][1].settled = "rejected")
                  => outcome'[p].status = "threw"
            /\ pc[p] = "done" => (outcome'[p] = outcome[p] /\ pc'[p] = "done")

C19_OneRequestNoRetry == [](C19_State) /\ [][C19_Step]_vars

C19_Witness ==
    \E p \in Procs :
        /\ Fn(p) \in OneShotHelpers \ {"putItem"}
        /\ pc[p] = "done"
        /\ Calls_(p) = 1
        /\ received[p][1].settled = "rejected"
        /\ outcome[p].status = "threw"

(***************************************************************************)
(* C20. httpCall, both generateAccessToken and generateUserAccessToken     *)
(* fail on a non-ok HTTP response with the error                           *)
(* 'API Error: <status> - <response body text>', reading the body as text  *)
(* only and returning nothing; on an ok response whose body parses they    *)
(* return the parsed body (httpCall) or the token field taken from it.     *)
(***************************************************************************)
FetchHelpers == OneShotHelpers \ {"putItem"}

\* the HTTP response p's fetch resolved with
Answered(p) == Len(received[p]) >= 1 /\ received[p][1].settled = "resolved"
ResponseOf(p) == received[p][1].value

\* the body of p's response has been read
BodyRead(p) == Len(received[p]) = 2 /\ received[p][2].settled = "resolved"

StatusText(st) ==
    CASE st = 200 -> "200" [] st = 201 -> "201" [] st = 400 -> "400"
      [] st = 401 -> "401" [] st = 500 -> "500"

\* the token field of a parsed body, Undefined when it has none
TokenField(p, data) ==
    IF Fn(p) = "generateUserAccessToken"
    THEN IF "AuthenticationResult" \in DOMAIN data.v
            /\ "AccessToken" \in DOMAIN data.v["AuthenticationResult"].v
         THEN data.v["AuthenticationResult"].v["AccessToken"]
         ELSE Undefined
    ELSE IF "access_token" \in DOMAIN data.v
         THEN data.v["access_token"] ELSE Undefined

C20_State ==
    \A p \in Procs :
        (Fn(p) \in FetchHelpers /\ Answered(p)) =>
            /\ pc[p] = "json" => ResponseOf(p).ok
            /\ pc[p] = "text" => ~ResponseOf(p).ok
            /\ (~ResponseOf(p).ok /\ pc[p] = "done") =>
                  outcome[p].status = "threw"
            /\ (~ResponseOf(p).ok /\ BodyRead(p)) =>
                  /\ received[p][2].value = Str(ResponseOf(p).body)
                  /\ outcome[p] =
                       Threw(Err("API Error: " \o StatusText(ResponseOf(p).status)
                                   \o " - " \o ResponseOf(p).body))
            /\ (ResponseOf(p).ok /\ BodyRead(p)) =>
                  IF Fn(p) = "httpCall"
                  THEN outcome[p] = Returned(received[p][2].value)
                  ELSE TokenField(p, received[p][2].value) # Undefined =>
                         outcome[p] =
                            Returned(TokenField(p, received[p][2].value))

C20_Step ==
    \A p \in Procs :
        (Fn(p) \in FetchHelpers /\ pc[p] = "text") => pc'[p] \in {"text", "done"}

C20_ApiErrorOrParsedBody == [](C20_State) /\ [][C20_Step]_vars

C20_Witness ==
    \E p \in Procs :
        /\ Fn(p) = "generateUserAccessToken"
        /\ Answered(p) /\ BodyRead(p)
        /\ ResponseOf(p).status = 401
        /\ outcome[p] = Threw(Err("API Error: 401 - Unauthorized"))

(***************************************************************************)
(* C21. The headers httpCall hands to fetch are the default                *)
(* 'Content-Type: application/json' merged with the caller's headers:      *)
(* every caller-supplied header is present with the caller's value,        *)
(* Content-Type is application/json unless the caller supplies its own     *)
(* Content-Type, and no other header is added.                             *)
(***************************************************************************)
\* the headers the caller passed: none when the argument is omitted
CallerHeaders(p) ==
    IF Args(p).headers = Undefined THEN [k \in {} |-> Undefined]
    ELSE Args(p).headers.v

C21_HeadersMerged ==
    \A p \in Procs :
        (Fn(p) = "httpCall" /\ Calls_(p) >= 1) =>
            LET h == sent[p][1].headers
                c == CallerHeaders(p)
            IN  /\ \A k \in DOMAIN c : k \in DOMAIN h /\ h[k] = c[k]
                /\ "Content-Type" \in DOMAIN h
                /\ "Content-Type" \notin DOMAIN c =>
                      h["Content-Type"] = Str("application/json")
                /\ DOMAIN h = DOMAIN c \cup {"Content-Type"}

C21_Witness ==
    \E p \in Procs :
        /\ Fn(p) = "httpCall" /\ Calls_(p) = 1
        /\ Args(p).headers = Obj(("Content-Type" :> Str("text/plain")))
        /\ sent[p][1].headers = ("Content-Type" :> Str("text/plain"))

(***************************************************************************)
(* C22. In the Cognito generateAccessToken (cognitoDomain, region,         *)
(* clientId, clientSecret) and in generateUserAccessToken (region,         *)
(* clientId) each setting is the explicitly passed value when one is       *)
(* given, and only otherwise the value of its environment variable; the    *)
(* request URL and the credentials are built from these values.            *)
(***************************************************************************)
\* the setting `name` of invocation p, with environment variable `variable`
Setting(p, name, variable) ==
    IF Args(p)[name] # Undefined THEN Args(p)[name] ELSE call[p].env[variable]

C22_SettingsResolved ==
    \A p \in Procs :
        /\ (Fn(p) = "cognito.generateAccessToken" /\ Calls_(p) >= 1) =>
              /\ sent[p][1].url =
                    "https://" \o Setting(p, "cognitoDomain", "OAUTH_COGNITO_DOMAIN").v
                      \o ".auth." \o Setting(p, "region", "AWS_REGION").v
                      \o ".amazoncognito.com/oauth2/token"
              /\ sent[p][1].headers["Authorization"] =
                    Str("Basic " \o
                        Base64(Setting(p, "clientId", "OAUTH_CLIENT_ID").v \o ":"
                               \o Setting(p, "clientSecret", "OAUTH_CLIENT_SECRET").v))
        /\ (Fn(p) = "generateUserAccessToken" /\ Calls_(p) >= 1) =>
              /\ sent[p][1].url =
                    "https://cognito-idp." \o Setting(p, "region", "AWS_REGION").v
                      \o ".amazonaws.com/"
              /\ sent[p][1].body =
                    Str("{\"AuthFlow\":\"USER_PASSWORD_AUTH\",\"ClientId\":\""
                        \o Setting(p, "clientId", "USER_POOL_CLIENT_ID").v
                        \o "\",\"AuthParameters\":{\"USERNAME\":\""
                        \o Args(p).email \o "\",\"PASSWORD\":\""
                        \o Args(p).password \o "\"}}")

C22_Witness ==
    \E p \in Procs :
        /\ Fn(p) = "cognito.generateAccessToken" /\ Calls_(p) = 1
        /\ Args(p).region = Str("us-east-1")
        /\ call[p].env.AWS_REGION = Str("eu-west-1")
        /\ Args(p).cognitoDomain = Undefined
        /\ Args(p).clientId = Undefined
        /\ Args(p).clientSecret = Str("my-client-secret")
        /\ call[p].env.OAUTH_CLIENT_SECRET = Str("env-client-secret")
        /\ sent[p][1].url = "https://env-app.auth.us-east-1.amazoncognito.com/oauth2/token"

(***************************************************************************)
(* C23. In the Cognito generateAccessToken and in generateUserAccessToken, *)
(* when a required setting is neither passed nor set in the environment,   *)
(* or is an empty string, the call fails with '<name> is required ...'     *)
(* before any request is made; of several missing settings the one         *)
(* reported is the first in the order cognitoDomain, region, clientId,     *)
(* clientSecret. With no setting missing no such failure occurs.           *)
(***************************************************************************)
\* the required settings of a helper, in the order of the claim, each with
\* its environment variable
RequiredSettings(fn) ==
    IF fn = "cognito.generateAccessToken"
    THEN << <<"cognitoDomain", "OAUTH_COGNITO_DOMAIN">>, <<"region", "AWS_REGION">>,
            <<"clientId", "OAUTH_CLIENT_ID">>, <<"clientSecret", "OAUTH_CLIENT_SECRET">> >>
    ELSE << <<"region", "AWS_REGION">>, <<"clientId", "USER_POOL_CLIENT_ID">> >>

\* setting number i of p is missing
Missing(p, i) ==
    LET s == Setting(p, RequiredSettings(Fn(p))[i][1], RequiredSettings(Fn(p))[i][2])
    IN  s = Undefined \/ s = Str("")

MissingSettings(p) == {i \in DOMAIN RequiredSettings(Fn(p)) : Missing(p, i)}

RequiredFailure(p, i) ==
    Threw(Err(RequiredSettings(Fn(p))[i][1] \o " is required " \o EmDash
              \o " pass it explicitly or set " \o RequiredSettings(Fn(p))[i][2]))

C23_State ==
    \A p \in Procs :
        Fn(p) \in {"cognito.generateAccessToken", "generateUserAccessToken"} =>
            /\ MissingSettings(p) # {} =>
                  /\ Calls_(p) = 0
                  /\ pc[p] \in {"called", "done"}
                  /\ pc[p] = "done" =>
                        \E i \in MissingSettings(p) :
                            /\ \A j \in MissingSettings(p) : i <= j
                            /\ outcome[p] = RequiredFailure(p, i)
            /\ MissingSettings(p) = {} =>
                  \A i \in DOMAIN RequiredSettings(Fn(p)) :
                      outcome[p] # RequiredFailure(p, i)

\* a call with a missing setting fails in its first step
C23_Step ==
    \A p \in Procs :
        (Fn(p) \in {"cognito.generateAccessToken", "generateUserAccessToken"}
           /\ MissingSettings(p) # {} /\ pc[p] = "called" /\ pc'[p] # pc[p]) =>
            pc'[p] = "done" /\ sent'[p] = <<>>

C23_MissingSettingRejected == [](C23_State) /\ [][C23_Step]_vars

C23_Witness ==
    \E p \in Procs :
        /\ Fn(p) = "cognito.generateAccessToken"
        /\ MissingSettings(p) = {2, 4}
        /\ Args(p).region = Str("")
        /\ call[p].env.AWS_REGION = Str("eu-west-1")
        /\ pc[p] = "done"
        /\ Calls_(p) = 0
        /\ outcome[p] = RequiredFailure(p, 2)

(***************************************************************************)
(* C24. In both generateAccessToken variants the body of the token request *)
(* always carries grant_type=client_credentials, and carries a scope       *)
(* parameter exactly when the scopes list is non-empty: its value is then  *)
(* the scopes in the given order joined by one space, which the form       *)
(* encoding writes as '+'. An empty or omitted list sends no scope.        *)
(***************************************************************************)
\* the scopes the caller passed: none when the argument is omitted
ScopesOf(p) == IF Args(p).scopes = Undefined THEN <<>> ELSE Args(p).scopes.v

\* one scope in application/x-www-form-urlencoded form
EncodedScope(s) ==
    CASE s = "read:users" -> "read%3Ausers"
      [] s = "write:orders" -> "write%3Aorders"
      [] s = "read" -> "read"
      [] s = "write" -> "write"
      [] s = "" -> ""

\* the encoded scopes, in order, with '+' between neighbours
RECURSIVE PlusJoined(_)
PlusJoined(scopes) ==
    IF Len(scopes) = 1 THEN EncodedScope(scopes[1].v)
    ELSE EncodedScope(scopes[1].v) \o "+" \o PlusJoined(Tail(scopes))

C24_ScopeOnlyWhenGiven ==
    \A p \in Procs :
        (Fn(p) \in {"generateAccessToken", "cognito.generateAccessToken"}
           /\ Calls_(p) >= 1) =>
            sent[p][1].body =
                IF Len(ScopesOf(p)) = 0
                THEN Str("grant_type=client_credentials")
                ELSE Str("grant_type=client_credentials&scope="
                           \o PlusJoined(ScopesOf(p)))

C24_Witness ==
    \E p \in Procs :
        /\ Fn(p) = "generateAccessToken" /\ Calls_(p) = 1
        /\ Args(p).scopes = Arr(<<Str("write:orders"), Str("read:users")>>)
        /\ sent[p][1].body =
             Str("grant_type=client_credentials&scope=write%3Aorders+read%3Ausers")

(***************************************************************************)
(* C25. In both generateAccessToken variants the Authorization header is   *)
(* 'Basic ' followed by the base64 encoding of the credentials, and        *)
(* decoding that part gives back exactly '<clientId>:<clientSecret>'.      *)
(* As stated, for every client id and secret (C25_AsStated); as it holds,  *)
(* for every id and secret without an unpaired surrogate code unit.        *)
(***************************************************************************)
\* Buffer.from(text, 'base64'): the bytes that base64 digits stand for
RECURSIVE Base64Decode(_)
Base64Decode(d) ==
    IF Len(d) < 4 THEN <<>>
    ELSE IF d[3] = 64 THEN <<d[1] * 4 + (d[2] \div 16)>>
    ELSE IF d[4] = 64
    THEN <<d[1] * 4 + (d[2] \div 16), (d[2] % 16) * 16 + (d[3] \div 4)>>
    ELSE <<d[1] * 4 + (d[2] \div 16), (d[2] % 16) * 16 + (d[3] \div 4),
           (d[3] % 4) * 64 + d[4]>> \o Base64Decode(SubSeq(d, 5, Len(d)))

\* buffer.toString('utf-8'): the code units of well-formed UTF-8 bytes
RECURSIVE Utf8Decode(_)
Utf8Decode(b) ==
    IF Len(b) = 0 THEN <<>>
    ELSE IF b[1] < 128 THEN <<b[1]>> \o Utf8Decode(SubSeq(b, 2, Len(b)))
    ELSE IF b[1] < 224
    THEN <<(b[1] - 192) * 64 + (b[2] - 128)>> \o Utf8Decode(SubSeq(b, 3, Len(b)))
    ELSE IF b[1] < 240
    THEN <<(b[1] - 224) * 4096 + (b[2] - 128) * 64 + (b[3] - 128)>>
           \o Utf8Decode(SubSeq(b, 4, Len(b)))
    ELSE LET cp == (b[1] - 240) * 262144 + (b[2] - 128) * 4096
                     + (b[3] - 128) * 64 + (b[4] - 128)
         IN  <<55296 + ((cp - 65536) \div 1024), 56320 + ((cp - 65536) % 1024)>>
               \o Utf8Decode(SubSeq(b, 5, Len(b)))

\* no surrogate code unit stands alone
RECURSIVE WellFormed(_)
WellFormed(units) ==
    IF Len(units) = 0 THEN TRUE
    ELSE IF units[1] >= 55296 /\ units[1] <= 56319
    THEN /\ Len(units) >= 2
         /\ units[2] >= 56320 /\ units[2] <= 57343
         /\ WellFormed(Tail(Tail(units)))
    ELSE IF units[1] >= 56320 /\ units[1] <= 57343 THEN FALSE
    ELSE WellFormed(Tail(units))

\* '<clientId>:<clientSecret>' of invocation p
Credentials(p) == Args(p).clientId \o <<58>> \o Args(p).clientSecret

Encoded(p) == Fn(p) = "credentials" /\ pc[p] = "encoded"

C25_AsStated ==
    \A p \in Procs :
        Encoded(p) =>
            Utf8Decode(Base64Decode(params[p].credentials)) = Credentials(p)

C25_RoundTripWellFormed ==
    \A p \in Procs :
        Encoded(p) =>
            /\ params[p].scheme = "Basic "
            /\ Len(params[p].credentials) % 4 = 0
            /\ WellFormed(Credentials(p)) <=>
                  Utf8Decode(Base64Decode(params[p].credentials)) = Credentials(p)

C25_Witness ==
    \E p \in Procs :
        /\ Encoded(p)
        /\ Args(p).clientId = <<55357, 56832>>
        /\ Args(p).clientSecret = <<8364>>
        /\ Len(params[p].credentials) = 12
        /\ params[p].credentials[12] = 64
        /\ Utf8Decode(Base64Decode(params[p].credentials)) = Credentials(p)

(***************************************************************************)
(* C26. generateRandomId(length) throws 'max uuid v4 length is 36' if and  *)
(* only if length > 36; for every other length it returns a string of      *)
(* exactly the specified length (36 when omitted) that is a prefix of a    *)
(* freshly generated UUID (C26_AsStated). As it holds: the length of the   *)
(* result is the specified length for lengths 0 to 36, and 0 for a         *)
(* negative length.                                                        *)
(***************************************************************************)
\* the length asked for
LengthOf(p) == IF Args(p).length = Undefined THEN 36 ELSE Args(p).length.v

IsPrefix(s, t) == Len(s) <= Len(t) /\ \A i \in 1 .. Len(s) : s[i] = t[i]

C26_AsStated ==
    \A p \in Procs :
        (Fn(p) = "generateRandomId" /\ pc[p] = "done") =>
            /\ outcome[p] = Threw(Err("max uuid v4 length is 36")) <=>
                  LengthOf(p) > 36
            /\ LengthOf(p) <= 36 =>
                  /\ outcome[p].status = "returned"
                  /\ Len(outcome[p].value) = LengthOf(p)
                  /\ IsPrefix(outcome[p].value, params[p])
                  /\ Len(params[p]) = 36

C26_PrefixOfLength ==
    \A p \in Procs :
        (Fn(p) = "generateRandomId" /\ pc[p] = "done") =>
            /\ outcome[p] = Threw(Err("max uuid v4 length is 36")) <=>
                  LengthOf(p) > 36
            /\ LengthOf(p) <= 36 =>
                  /\ outcome[p].status = "returned"
                  /\ Len(outcome[p].value) =
                        (IF LengthOf(p) < 0 THEN 0 ELSE LengthOf(p))
                  /\ IsPrefix(outcome[p].value, params[p])
                  /\ Len(params[p]) = 36

C26_Witness ==
    \E p \in Procs :
        /\ Fn(p) = "generateRandomId" /\ pc[p] = "done"
        /\ Args(p).length = Num(8)
        /\ outcome[p] = Returned(<<"a", "1", "b", "2", "c", "3", "d", "4">>)

(***************************************************************************)
(* C27. Every getItem and query invocation terminates: when every store    *)
(* call is eventually answered or fails and every pause eventually ends,   *)
(* the invocation eventually returns or throws, having made at most        *)
(* maxAttempts store calls and at most maxAttempts pauses (none when       *)
(* maxAttempts <= 0).                                                      *)
(***************************************************************************)
\* the most calls, and the most pauses, a budget allows
AtMost(p) == IF Budget(p) < 0 THEN 0 ELSE Budget(p)

Finished(p) == pc[p] = "done" /\ outcome[p].status \in {"returned", "threw"}

C27_Bounded ==
    \A p \in Procs :
        /\ Calls_(p) <= AtMost(p)
        /\ Pauses(p) <= AtMost(p)
        /\ pc[p] = "done" => Finished(p)
        /\ outcome[p] # Pending => pc[p] = "done"

C27_Terminates == [](C27_Bounded) /\ <>(\A p \in Procs : Finished(p))

C27_Witness ==
    \E p \in Procs :
        /\ Fn(p) = "query"
        /\ Args(p).maxIterations = Undefined
        /\ Finished(p)
        /\ Calls_(p) = 10 /\ Pauses(p) = 10
        /\ outcome[p] = Threw(TerminalError(p))

(***************************************************************************)
(* C28. The request a poller sends is the same on every attempt of one     *)
(* invocation: getItem's table name and key and query's whole parameter    *)
(* set, with the caller's continuation token, are computed once before     *)
(* the first attempt and are left unchanged by missed attempts and pauses; *)
(* query never sends a continuation token other than the caller's.         *)
(***************************************************************************)
C28_State ==
    \A p \in Procs :
        Fn(p) \in {"getItem", "query"} =>
            /\ \A k \in 1 .. Calls_(p) : sent[p][k] = sent[p][1]
            /\ (Fn(p) = "getItem" /\ Calls_(p) >= 1) =>
                  /\ sent[p][1].TableName = Args(p).tableName
                  /\ sent[p][1].Key.pk = Args(p).keys.pk
            /\ Fn(p) = "query" =>
                  \A k \in 1 .. Calls_(p) :
                      /\ sent[p][k].TableName = Args(p).tableName
                      /\ sent[p][k].ExclusiveStartKey = Args(p).lastEvaluatedKey

\* once computed, the parameters are never written again
C28_Step ==
    \A p \in Procs :
        (Fn(p) \in {"getItem", "query"} /\ pc[p] # "called") =>
            params'[p] = params[p]

C28_SameRequestEveryAttempt == [](C28_State) /\ [][C28_Step]_vars

C28_Witness ==
    \E p \in Procs :
        /\ Fn(p) = "query"
        /\ Args(p).lastEvaluatedKey # Undefined
        /\ Calls_(p) = 2
        /\ Pauses(p) = 1
        /\ sent[p][2] = sent[p][1]
        /\ sent[p][2].ExclusiveStartKey = Args(p).lastEvaluatedKey

(***************************************************************************)
(* C29. A poller's failure carries no partial result and its success       *)
(* carries only the final response: a failed getItem or query throws the   *)
(* store's error or the terminal error and returns nothing; a successful   *)
(* query returns the items and the continuation token of its last          *)
(* response, the items being an empty list, never undefined, when that     *)
(* response had a token and no item list.                                  *)
(***************************************************************************)
\* the answer to the last store call of p
LastAnswer(p) == received[p][Len(received[p])]

C29_FinalResponseOnly ==
    \A p \in Procs :
        (Fn(p) \in {"getItem", "query"} /\ pc[p] = "done") =>
            /\ outcome[p].status = "threw" =>
                  \/ /\ Len(received[p]) >= 1
                     /\ LastAnswer(p).settled = "rejected"
                     /\ outcome[p].value = LastAnswer(p).value
                  \/ /\ \A k \in Attempts(p) : AttemptMissed(p, k)
                     /\ outcome[p].value = TerminalError(p)
            /\ outcome[p].status = "returned" =>
                  /\ Len(received[p]) >= 1
                  /\ LastAnswer(p).settled = "resolved"
                  /\ \A k \in 1 .. Len(received[p]) - 1 : AttemptMissed(p, k)
                  /\ Fn(p) = "getItem" => outcome[p].value = LastAnswer(p).value.Item
                  /\ Fn(p) = "query" =>
                        /\ DOMAIN outcome[p].value = {"items", "lastEvaluatedKey"}
                        /\ outcome[p].value.lastEvaluatedKey =
                              LastAnswer(p).value.LastEvaluatedKey
                        /\ outcome[p].value.items =
                              (IF LastAnswer(p).value.Items = Undefined
                               THEN Arr(<<>>) ELSE LastAnswer(p).value.Items)

C29_Witness ==
    \E p \in Procs :
        /\ Fn(p) = "query" /\ pc[p] = "done"
        /\ Len(received[p]) = 2
        /\ AttemptMissed(p, 1)
        /\ LastAnswer(p).value.Items = Undefined
        /\ LastAnswer(p).value.LastEvaluatedKey # Undefined
        /\ outcome[p] =
             Returned([items |-> Arr(<<>>),
                       lastEvaluatedKey |-> LastAnswer(p).value.LastEvaluatedKey])

(***************************************************************************)
(* C30. httpCall and the token helpers normalise failures: an Error thrown *)
(* by the request or by the handling of the response is rethrown           *)
(* unchanged, a thrown value that is not an Error becomes a new Error      *)
(* with the message 'Unknown error: <string of the value>', and the        *)
(* helper's failure is always an Error.                                    *)
(***************************************************************************)
IsError(x) == x.t = "error"

\* String(x) of the values a stubbed request throws
StringOf(x) ==
    CASE x = Str("string error") -> "string error"
      [] x = Num(42) -> "42"

\* the value thrown inside the try block of p, if one was: what the request
\* or the reading of the body rejected with
ThrownInside(p) == received[p][Len(received[p])].value

C30_FailuresNormalised ==
    \A p \in Procs :
        (Fn(p) \in FetchHelpers /\ pc[p] = "done" /\ outcome[p].status = "threw") =>
            /\ IsError(outcome[p].value)
            /\ (Len(received[p]) >= 1 /\ received[p][Len(received[p])].settled = "rejected") =>
                  IF IsError(ThrownInside(p))
                  THEN outcome[p].value = ThrownInside(p)
                  ELSE outcome[p].value =
                         Err("Unknown error: " \o StringOf(ThrownInside(p)))

C30_Witness ==
    \E p \in Procs :
        /\ Fn(p) = "generateAccessToken" /\ pc[p] = "done"
        /\ received[p] = <<Rejected(Num(42))>>
        /\ outcome[p] = Threw(Err("Unknown error: 42"))

====
